---- MODULE Spec2Model ----
(***************************************************************************)
(* Entity store of one octree node (ModelTreeElement) and the jurisdiction *)
(* aware edit packet sender (OctreeEditPacketSender) of mthome/hifi.       *)
(*                                                                         *)
(* SpecStore  : the entity list of one ModelTreeElement under storeModel   *)
(*              and updateModel(const ModelItem&).                         *)
(* SpecIdentity : the entity list under storeModel, the local-edit form of *)
(*              updateModel, updateModelItemID and removeModelWithID.      *)
(* SpecSweep  : the entity list under storeModel, local edits that move an *)
(*              entity, and update(args).                                  *)
(* SpecThreads : one OctreeEditPacketSender whose calls are interleaved     *)
(*              statement by statement between two producer threads and    *)
(*              the dispatch thread.                                       *)
(* SpecFrame  : the entity list under storeModel, both updateModel forms   *)
(*              and removeModelWithID.                                     *)
(* SpecQuery  : the entity list under storeModel and the spatial queries.  *)
(* SpecCodec  : appendElementData and readElementDataFromBuffer over a     *)
(*              packet of bytes.                                           *)
(* SpecSender : one OctreeEditPacketSender with its node list and          *)
(*              jurisdiction map as environment.                           *)
(* SpecBatch  : the same sender batching records of several types and      *)
(*              lengths for one server.                                    *)
(* SpecRoute  : the same sender routing edits to two servers that come and *)
(*              go and whose clocks are skewed.                            *)
(***************************************************************************)
EXTENDS Integers, Sequences, FiniteSets, TLC

(***************************************************************************)
(* Bounds                                                                  *)
(***************************************************************************)
MaxItems == 2          \* entities held by the node
MaxTime == 2           \* timestamps range over 1..MaxTime

MaxEdits == 3          \* edits submitted to the sender in one run
MaxPending == 2        \* _maxPendingMessages is configured in 0..MaxPending
MaxPacketSize == 14    \* _maxPacketSize, scaled down from MAX_PACKET_SIZE

ModelIDs == {1, 2}     \* entity IDs
Times == 1..MaxTime

(***************************************************************************)
(* ModelItem: identity and the two timestamps the merge compares and       *)
(* copies.                                                                 *)
(***************************************************************************)
ModelItem == [id : ModelIDs, lastEdited : Times, lastUpdated : Times]

VARIABLES
    modelItems,     \* ModelTreeElement::_modelItems, a QList<ModelItem>
    storeCall       \* the last store operation: its argument, the list before it, its result

storeVars == <<modelItems, storeCall>>

VARIABLES
    activeSocket,                   \* per server: in the node hash, of getMyNodeType(), with an active socket
    serverJurisdictions,            \* _serverJurisdictions: NULL or the map server -> jurisdiction
    clockSkew,                      \* per server: node->getClockSkewUsec()
    shouldSend,                     \* _shouldSend
    maxPendingMessages,             \* _maxPendingMessages
    releaseQueuedMessagesPending,   \* _releaseQueuedMessagesPending
    sequenceNumber,                 \* _sequenceNumber, unsigned short
    preServerSingleMessagePackets,  \* _preServerSingleMessagePackets
    preServerPackets,               \* _preServerPackets
    pendingEditPackets,             \* _pendingEditPackets: server -> EditPacketBuffer
    crashed,                        \* the process died on a null _serverJurisdictions
    nextId,                         \* number of the next submitted edit
    bootLog,                        \* edits queued as pending since the last drain
    releaseLatchedFor,              \* servers whose buffer was non-empty when a release was
                                    \* latched and has not been flushed since
    headersBuilt,                   \* number of headers initializePacket has built so far
    senderCall                      \* the last sender operation, what it did and what it
                                    \* handed to queuePacketForSending

envVars == <<activeSocket, serverJurisdictions, clockSkew>>

configVars == <<shouldSend, maxPendingMessages>>

senderState == <<releaseQueuedMessagesPending, sequenceNumber, preServerSingleMessagePackets,
                 preServerPackets, pendingEditPackets, crashed>>

ghostVars == <<nextId, bootLog, releaseLatchedFor, headersBuilt>>

senderVars == <<envVars, configVars, senderState, ghostVars, senderCall>>

VARIABLES
    pc,                     \* per thread: the statement it is about to execute
    frame,                  \* per thread: the arguments of the call it is in
    pendingPacketsLock,     \* _pendingPacketsLock: the thread that holds it, or "free"
    transport,              \* the packets handed to queuePacketForSending, in order
    appended                \* numbers of the records whose append has completed

threadVars == <<pc, frame, pendingPacketsLock, transport, appended>>

VARIABLES
    packetData              \* the OctreePacketData appendElementData wrote, as it travels

wireVars == <<packetData>>

vars == <<storeVars, senderVars, threadVars, wireVars>>

NoItem == [id |-> 0, lastEdited |-> 0, lastUpdated |-> 0]

(***************************************************************************)
(* updateModel(const ModelItem&)                                           *)
(***************************************************************************)
\* index of the first entity with the given ID, 0 when the loop runs off the end
RECURSIVE FindByID(_, _, _)
FindByID(items, id, i) ==
    IF i > Len(items) THEN 0
    ELSE IF items[i].id = id THEN i
    ELSE FindByID(items, id, i + 1)

changedOnServer(thisModel, model) == thisModel.lastEdited < model.lastEdited

localOlder(thisModel, model) == thisModel.lastUpdated < model.lastUpdated

ShouldOverwriteOnlyEdited(thisModel, model) == changedOnServer(thisModel, model)

ShouldOverwrite(thisModel, model) ==
    changedOnServer(thisModel, model) \/ localOlder(thisModel, model)

\* ModelItem::copyChangedProperties: every incoming property is copied onto
\* the stored entity
copyChangedProperties(thisModel, model) == model

UpdateModelItemsAppending(items, model) ==
    LET i == FindByID(items, model.id, 1) IN
    IF i = 0 THEN items
    ELSE IF ShouldOverwrite(items[i], model)
         THEN Append(items, copyChangedProperties(items[i], model))
         ELSE items

UpdateModelItemsEveryMatch(items, model) ==
    [i \in 1..Len(items) |->
        IF items[i].id = model.id /\ ShouldOverwrite(items[i], model)
        THEN copyChangedProperties(items[i], model) ELSE items[i]]

UpdateModelItemsInserting(items, model) ==
    LET i == FindByID(items, model.id, 1) IN
    IF i = 0 THEN Append(items, model)
    ELSE IF ShouldOverwrite(items[i], model)
         THEN [items EXCEPT ![i] = copyChangedProperties(items[i], model)]
         ELSE items

\* the entity list after updateModel(model)
UpdateModelItems(items, model) ==
    LET i == FindByID(items, model.id, 1) IN
    IF i = 0 THEN items
    ELSE IF ShouldOverwrite(items[i], model)
         THEN [items EXCEPT ![i] = copyChangedProperties(items[i], model)]
         ELSE items

\* the value updateModel(model) returns
UpdateModelFound(items, model) == FindByID(items, model.id, 1) # 0

\* markWithChangedTime() is reached only on the overwrite branch
UpdateModelMarks(items, model) ==
    LET i == FindByID(items, model.id, 1) IN
    i # 0 /\ ShouldOverwrite(items[i], model)

StoreModelItemsUnique(items, model) ==
    IF FindByID(items, model.id, 1) = 0 THEN Append(items, model) ELSE items

\* storeModel: push_back, no uniqueness check
StoreModelItems(items, model) == Append(items, model)

StoreStart ==
    /\ modelItems = <<>>
    /\ storeCall = [op |-> "none", arg |-> NoItem, pre |-> <<>>, ret |-> FALSE,
                    marked |-> FALSE, rep |-> FALSE, prevChanged |-> FALSE]

storeModel(model) ==
    /\ Len(modelItems) < MaxItems
    /\ modelItems' = StoreModelItems(modelItems, model)
    /\ storeCall' = [op |-> "storeModel", arg |-> model, pre |-> modelItems,
                     ret |-> TRUE, marked |-> TRUE, rep |-> FALSE,
                     prevChanged |-> FALSE]

updateModel(model) ==
    /\ modelItems' = UpdateModelItems(modelItems, model)
    /\ storeCall' = [op |-> "updateModel", arg |-> model, pre |-> modelItems,
                     ret |-> UpdateModelFound(modelItems, model),
                     marked |-> UpdateModelMarks(modelItems, model),
                     rep |-> (storeCall.op = "updateModel" /\ storeCall.arg = model),
                     prevChanged |-> (/\ storeCall.op = "updateModel"
                                      /\ storeCall.arg = model
                                      /\ modelItems # storeCall.pre)]

StoreNext ==
    \/ \E model \in ModelItem : storeModel(model) /\ UNCHANGED <<senderVars, threadVars, wireVars>>
    \/ \E model \in ModelItem : updateModel(model) /\ UNCHANGED <<senderVars, threadVars, wireVars>>

(***************************************************************************)
(* Identity, removal and the sweep                                         *)
(***************************************************************************)
UNKNOWN_MODEL_TOKEN == 0
CreatorTokens == {1}               \* tokens of locally created entities
Properties == {"p", "q"}           \* values of the mutable property set
Positions == {"inside", "outside"} \* _box.contains(model.getPosition()) or not

\* entities of SpecIdentity: they stay where they are and do not die
IdentityItem ==
    [id : ModelIDs, creatorTokenID : CreatorTokens \cup {UNKNOWN_MODEL_TOKEN},
     lastEdited : {1, MaxTime}, props : Properties, position : {"inside"}, shouldDie : {FALSE}]

\* entities of SpecSweep: storeModel takes them wherever they are
SweepItem ==
    [id : ModelIDs, creatorTokenID : {UNKNOWN_MODEL_TOKEN}, lastEdited : {1},
     props : {"p"}, position : Positions, shouldDie : BOOLEAN]

ModelItemID == [isKnownID : BOOLEAN, id : ModelIDs, creatorTokenID : CreatorTokens]

\* the property sets of a local edit: a new value, or a new position
IdentityProperties == [props : Properties]

SweepProperties == [position : Positions]

\* ModelItem::setProperties: every property of the edit is written onto the
\* entity
setProperties(thisModel, properties) ==
    [f \in DOMAIN thisModel |->
        IF f \in DOMAIN properties THEN properties[f] ELSE thisModel[f]]

\* updateModel(modelID, properties), lines 163-168
FoundByModelID(thisModel, modelID) ==
    IF modelID.isKnownID
    THEN thisModel.id = modelID.id
    ELSE thisModel.creatorTokenID = modelID.creatorTokenID

\* index of the first entity updateModel(modelID, properties) matches, 0 when
\* the loop runs off the end
RECURSIVE FindByModelID(_, _, _)
FindByModelID(items, modelID, i) ==
    IF i > Len(items) THEN 0
    ELSE IF FoundByModelID(items[i], modelID) THEN i
    ELSE FindByModelID(items, modelID, i + 1)

UpdateModelPropertiesIfOlder(items, modelID, properties) ==
    LET i == FindByModelID(items, modelID, 1) IN
    IF i = 0 \/ items[i].lastEdited > 1 THEN items
    ELSE [items EXCEPT ![i] = setProperties(items[i], properties)]

\* the entity list after updateModel(modelID, properties)
UpdateModelProperties(items, modelID, properties) ==
    LET i == FindByModelID(items, modelID, 1) IN
    IF i = 0 THEN items
    ELSE [items EXCEPT ![i] = setProperties(items[i], properties)]

\* QList::removeAt
RemoveAt(items, i) == SubSeq(items, 1, i - 1) \o SubSeq(items, i + 1, Len(items))

\* FindAndUpdateModelItemIDArgs as the caller hands it in
UpdateItemIDArgs ==
    [creatorTokenID : CreatorTokens, modelID : ModelIDs, isViewing : BOOLEAN,
     creatorTokenFound : BOOLEAN, viewedModelFound : {FALSE}]

UpdateModelItemIDEveryMatch(items, args, i, numberOfModels) ==
    [items |-> [j \in 1..Len(items) |->
                   IF items[j].creatorTokenID = args.creatorTokenID
                   THEN [items[j] EXCEPT !.id = args.modelID] ELSE items[j]],
     args |-> [args EXCEPT !.creatorTokenFound = TRUE]]

UpdateModelItemIDKeepingEcho(items, args, i, numberOfModels) ==
    LET k == FindByModelID(items, [isKnownID |-> FALSE, id |-> args.modelID,
                                   creatorTokenID |-> args.creatorTokenID], 1)
    IN  IF k = 0 \/ args.creatorTokenFound THEN [items |-> items, args |-> args]
        ELSE [items |-> [items EXCEPT ![k].id = args.modelID],
              args |-> [args EXCEPT !.creatorTokenFound = TRUE]]

\* updateModelItemID: the loop of lines 188-208 with its uint16_t index i
\* (0-based) and its count numberOfModels
RECURSIVE UpdateModelItemID(_, _, _, _)
UpdateModelItemID(items, args, i, numberOfModels) ==
    IF i >= numberOfModels THEN [items |-> items, args |-> args]
    ELSE LET tokenHit == /\ ~args.creatorTokenFound
                         /\ items[i + 1].creatorTokenID = args.creatorTokenID
             items1 == IF tokenHit THEN [items EXCEPT ![i + 1].id = args.modelID] ELSE items
             args1 == IF tokenHit THEN [args EXCEPT !.creatorTokenFound = TRUE] ELSE args
             viewedHit == /\ ~args1.viewedModelFound
                          /\ args1.isViewing
                          /\ items1[i + 1].creatorTokenID = UNKNOWN_MODEL_TOKEN
                          /\ items1[i + 1].id = args1.modelID
             items2 == IF viewedHit THEN RemoveAt(items1, i + 1) ELSE items1
             args2 == IF viewedHit THEN [args1 EXCEPT !.viewedModelFound = TRUE] ELSE args1
             n2 == IF viewedHit THEN numberOfModels - 1 ELSE numberOfModels
             i2 == IF viewedHit THEN (i - 1) % 65536 ELSE i
         IN  UpdateModelItemID(items2, args2, (i2 + 1) % 65536, n2)

\* getModelWithID: the first entity with the ID, NoItem for NULL
GetModelWithID(items, id) ==
    LET i == FindByID(items, id, 1) IN IF i = 0 THEN NoItem ELSE items[i]

RemoveModelWithIDLast(items, id) ==
    IF FindByID(items, id, 1) = 0 THEN items ELSE SubSeq(items, 1, Len(items) - 1)

\* the entity list after removeModelWithID(id)
RemoveModelWithID(items, id) ==
    LET i == FindByID(items, id, 1) IN IF i = 0 THEN items ELSE RemoveAt(items, i)

\* what ModelItem::update can do to one entity in a tick
Moves == {"stay", "drift", "die"}

\* ModelItem::update: the simulation step of one entity
ModelItemUpdate(model, move) ==
    IF move = "drift" THEN [model EXCEPT !.position = "outside"]
    ELSE IF move = "die" THEN [model EXCEPT !.shouldDie = TRUE]
    ELSE model

\* update(args) that hands over the dead entities only
RECURSIVE SweepDeadOnly(_, _, _, _)
SweepDeadOnly(items, moving, sim, i) ==
    IF i > Len(items) THEN [items |-> items, moving |-> moving]
    ELSE LET model == ModelItemUpdate(items[i], Head(sim))
         IN  IF model.shouldDie
             THEN SweepDeadOnly(RemoveAt(items, i), Append(moving, model), Tail(sim), i)
             ELSE SweepDeadOnly([items EXCEPT ![i] = model], moving, Tail(sim), i + 1)

\* update(args) that steps over the entity behind an erased one
RECURSIVE SweepSkippingAfterErase(_, _, _, _)
SweepSkippingAfterErase(items, moving, sim, i) ==
    IF i > Len(items) THEN [items |-> items, moving |-> moving]
    ELSE LET model == ModelItemUpdate(items[i], Head(sim))
         IN  IF model.shouldDie \/ model.position # "inside"
             THEN SweepSkippingAfterErase(RemoveAt(items, i), Append(moving, model),
                                          Tail(Tail(sim) \o <<"stay">>), i + 1)
             ELSE SweepSkippingAfterErase([items EXCEPT ![i] = model], moving, Tail(sim), i + 1)

\* update(args), lines 74-89: modelItr is position i of the list, sim the
\* moves of the entities not yet visited
RECURSIVE Sweep(_, _, _, _)
Sweep(items, moving, sim, i) ==
    IF i > Len(items) THEN [items |-> items, moving |-> moving]
    ELSE LET model == ModelItemUpdate(items[i], Head(sim))
         IN  IF model.shouldDie \/ model.position # "inside"
             THEN Sweep(RemoveAt(items, i), Append(moving, model), Tail(sim), i)
             ELSE Sweep([items EXCEPT ![i] = model], moving, Tail(sim), i + 1)

updateModelProperties(modelID, properties) ==
    /\ modelItems' = UpdateModelProperties(modelItems, modelID, properties)
    /\ storeCall' = [op |-> "updateModelProperties", modelID |-> modelID,
                     properties |-> properties, pre |-> modelItems,
                     ret |-> FindByModelID(modelItems, modelID, 1) # 0,
                     marked |-> FindByModelID(modelItems, modelID, 1) # 0]

updateModelItemID(args) ==
    LET out == UpdateModelItemID(modelItems, args, 0, Len(modelItems))
    IN  /\ modelItems' = out.items
        /\ storeCall' = [op |-> "updateModelItemID", args |-> args, pre |-> modelItems,
                         out |-> out.args]

removeModelWithID(id) ==
    /\ modelItems' = RemoveModelWithID(modelItems, id)
    /\ storeCall' = [op |-> "removeModelWithID", id |-> id, pre |-> modelItems,
                     ret |-> FindByID(modelItems, id, 1) # 0,
                     lookup |-> GetModelWithID(RemoveModelWithID(modelItems, id), id)]

\* update(args) with args._movingModels empty; sim is what ModelItem::update
\* does to each entity of the list
update(sim) ==
    LET out == Sweep(modelItems, <<>>, sim, 1)
    IN  /\ modelItems' = out.items
        /\ storeCall' = [op |-> "update", sim |-> sim, pre |-> modelItems,
                         movingModels |-> out.moving, marked |-> TRUE]

(***************************************************************************)
(* The spatial queries, on one axis                                        *)
(***************************************************************************)
MaxCoord == 2                       \* positions are 0..MaxCoord
Coords == 0..MaxCoord
Radii == {0, 1}
FLT_MAX == 1000000                  \* above every distance of the model

\* entities of SpecQuery
QueryItem == [id : ModelIDs, position : Coords, radius : Radii]

\* the node's _box and the boxes a caller asks about
NodeBox == [corner |-> 0, scale |-> MaxCoord]

QueryBoxes == {[corner |-> 0, scale |-> 1], [corner |-> MaxCoord + 2, scale |-> 1]}

QueryPositions == 0..(MaxCoord + 1)

\* glm::distance
Distance(a, b) == IF a < b THEN b - a ELSE a - b

\* AABox::touches: the two boxes share a point
Touches(a, b) == a.corner <= b.corner + b.scale /\ b.corner <= a.corner + a.scale

\* modelBox.setBox(position - radius, 2 * radius), line 247
ModelBox(model) == [corner |-> model.position - model.radius, scale |-> 2 * model.radius]

\* getClosestModel, lines 214-223: the index of closestModel (0 for NULL);
\* closestModelDistance is compared at line 219 and never assigned
RECURSIVE GetClosestModel(_, _, _, _, _)
GetClosestModel(items, position, i, closestModel, closestModelDistance) ==
    IF i > Len(items) THEN closestModel
    ELSE LET distanceToModel == Distance(position, items[i].position)
         IN  GetClosestModel(items, position, i + 1,
                             IF distanceToModel < closestModelDistance THEN i
                             ELSE closestModel,
                             closestModelDistance)

\* getModelsForUpdate, lines 238-252: the indices pushed onto foundModels, in
\* order; the test of line 248 is against _box
RECURSIVE GetModelsForUpdate(_, _, _, _)
GetModelsForUpdate(items, box, i, foundModels) ==
    IF i > Len(items) THEN foundModels
    ELSE GetModelsForUpdate(items, box, i + 1,
                            IF Touches(ModelBox(items[i]), NodeBox)
                            THEN Append(foundModels, i) ELSE foundModels)

getClosestModel(position) ==
    /\ storeCall' = [op |-> "getClosestModel", position |-> position, pre |-> modelItems,
                     closestModel |-> GetClosestModel(modelItems, position, 1, 0, FLT_MAX)]
    /\ UNCHANGED modelItems

getModelsForUpdate(box) ==
    /\ storeCall' = [op |-> "getModelsForUpdate", box |-> box, pre |-> modelItems,
                     foundModels |-> GetModelsForUpdate(modelItems, box, 1, <<>>)]
    /\ UNCHANGED modelItems

QueryNext ==
    \/ \E model \in QueryItem : storeModel(model) /\ UNCHANGED <<senderVars, threadVars, wireVars>>
    \/ \E position \in QueryPositions :
          getClosestModel(position) /\ UNCHANGED <<senderVars, threadVars, wireVars>>
    \/ \E box \in QueryBoxes : getModelsForUpdate(box) /\ UNCHANGED <<senderVars, threadVars, wireVars>>

(***************************************************************************)
(* The codec: a packet is a sequence of bytes                              *)
(***************************************************************************)
\* entities of SpecCodec
CodecItem == [id : ModelIDs, position : {1}, radius : {1}, props : Properties]

SizeofCount == 2        \* sizeof(uint16_t numberOfModels)
ExpectedBytes == 4      \* ModelItem::expectedBytes(): every entity takes this many
MaxBytes == SizeofCount + MaxItems * ExpectedBytes

\* no packet written yet
NoPacket == [bytes |-> <<>>, source |-> <<>>, ok |-> FALSE, intact |-> TRUE]

PacketStart == packetData = NoPacket

\* a uint16_t in the buffer, low byte first
EncodeCount(n) == <<(n % 65536) % 256, (n % 65536) \div 256>>

\* the byte at offset i (0-based); a byte past the data reads as 0
ByteAt(data, i) == IF i + 1 <= Len(data) THEN data[i + 1] ELSE 0

DecodeCount(data, at) == ByteAt(data, at) + 256 * ByteAt(data, at + 1)

\* the property blob as a byte, and back
PropsByte(props) == IF props = "p" THEN 112 ELSE 113

PropsOf(byte) == IF byte = 112 THEN "p" ELSE "q"

\* ModelItem::appendModelData: identity, position, radius, properties
EncodeModel(model) == <<model.id, model.position, model.radius, PropsByte(model.props)>>

\* ModelItem::readModelDataFromBuffer: tempModel from the bytes at offset at
DecodeModel(data, at) ==
    [id |-> ByteAt(data, at), position |-> ByteAt(data, at + 1),
     radius |-> ByteAt(data, at + 2), props |-> PropsOf(ByteAt(data, at + 3))]

\* appendElementData, lines 57-64: the loop; an entity is appended whole or
\* not at all
RECURSIVE AppendModels(_, _, _, _)
AppendModels(items, i, bytes, available) ==
    IF i > Len(items) THEN [bytes |-> bytes, success |-> TRUE]
    ELSE IF Len(bytes) + ExpectedBytes > available
         THEN [bytes |-> bytes, success |-> FALSE]
         ELSE AppendModels(items, i + 1, bytes \o EncodeModel(items[i]), available)

RECURSIVE Reverse(_)
Reverse(items) == IF items = <<>> THEN <<>> ELSE Append(Reverse(Tail(items)), Head(items))

AppendElementDataReversed(items, available) ==
    IF SizeofCount > available THEN [bytes |-> <<>>, success |-> FALSE]
    ELSE AppendModels(Reverse(items), 1, EncodeCount(Len(items)), available)

AppendElementDataCountingWritten(items, available) ==
    IF SizeofCount > available THEN [bytes |-> <<>>, success |-> FALSE]
    ELSE LET out == AppendModels(items, 1, EncodeCount(0), available)
         IN  [out EXCEPT !.bytes = EncodeCount((Len(@) - SizeofCount) \div ExpectedBytes)
                                       \o SubSeq(@, SizeofCount + 1, Len(@))]

\* appendElementData into a packet with room for available bytes
AppendElementData(items, available) ==
    IF SizeofCount > available THEN [bytes |-> <<>>, success |-> FALSE]
    ELSE AppendModels(items, 1, EncodeCount(Len(items)), available)

\* readElementDataFromBuffer, lines 297-304: the loop; read is one past the
\* highest offset read so far, low the lowest value bytesLeftToRead took
RECURSIVE ReadModels(_, _, _)
ReadModels(data, r, i) ==
    IF i >= r.numberOfModels THEN r
    ELSE ReadModels(data,
                    [r EXCEPT !.stored = Append(@, DecodeModel(data, r.bytesRead)),
                              !.read = r.bytesRead + ExpectedBytes,
                              !.bytesLeftToRead = @ - ExpectedBytes,
                              !.low = IF r.bytesLeftToRead - ExpectedBytes < @
                                      THEN r.bytesLeftToRead - ExpectedBytes ELSE @,
                              !.bytesRead = @ + ExpectedBytes],
                    i + 1)

ReadElementDataFromBufferUnchecked(data, bytesLeftToRead) ==
    LET numberOfModels == DecodeCount(data, 0)
        r == [numberOfModels |-> numberOfModels, stored |-> <<>>, read |-> SizeofCount,
              bytesLeftToRead |-> bytesLeftToRead - SizeofCount,
              low |-> bytesLeftToRead - SizeofCount, bytesRead |-> SizeofCount]
    IN  IF r.bytesLeftToRead >= numberOfModels * ExpectedBytes
        THEN ReadModels(data, r, 0) ELSE r

\* readElementDataFromBuffer
ReadElementDataFromBuffer(data, bytesLeftToRead) ==
    IF bytesLeftToRead >= SizeofCount
    THEN LET numberOfModels == DecodeCount(data, 0)
             r == [numberOfModels |-> numberOfModels, stored |-> <<>>, read |-> SizeofCount,
                   bytesLeftToRead |-> bytesLeftToRead - SizeofCount,
                   low |-> bytesLeftToRead - SizeofCount, bytesRead |-> SizeofCount]
         IN  IF r.bytesLeftToRead >= numberOfModels * ExpectedBytes
             THEN ReadModels(data, r, 0) ELSE r
    ELSE [numberOfModels |-> 0, stored |-> <<>>, read |-> 0,
          bytesLeftToRead |-> bytesLeftToRead, low |-> bytesLeftToRead, bytesRead |-> 0]

appendElementData(available) ==
    LET out == AppendElementData(modelItems, available)
    IN  /\ packetData' = [bytes |-> out.bytes, source |-> modelItems, ok |-> out.success,
                          intact |-> TRUE]
        /\ storeCall' = [op |-> "appendElementData", pre |-> modelItems,
                         available |-> available, ret |-> out.success]
        /\ UNCHANGED modelItems

\* the count field of the packet is not what the sender wrote
CountDamaged(n) ==
    /\ Len(packetData.bytes) >= SizeofCount
    /\ DecodeCount(packetData.bytes, 0) # n
    /\ packetData' = [packetData EXCEPT
                          !.bytes = EncodeCount(n) \o SubSeq(@, SizeofCount + 1, Len(@)),
                          !.intact = FALSE]
    /\ UNCHANGED storeVars

\* the entities go to _myTree->storeModel, which picks their node
readElementDataFromBuffer(bytesLeftToRead) ==
    LET r == ReadElementDataFromBuffer(packetData.bytes, bytesLeftToRead)
    IN  /\ storeCall' = [op |-> "readElementDataFromBuffer", pre |-> modelItems,
                         bytesLeftToRead |-> bytesLeftToRead, ret |-> r.bytesRead,
                         stored |-> r.stored, read |-> r.read, low |-> r.low,
                         numberOfModels |-> r.numberOfModels]
        /\ UNCHANGED <<modelItems, packetData>>

CodecNext ==
    \/ \E model \in CodecItem :
          /\ packetData = NoPacket
          /\ storeModel(model)
          /\ UNCHANGED <<senderVars, threadVars, wireVars>>
    \/ \E available \in 0..MaxBytes :
          /\ packetData = NoPacket
          /\ appendElementData(available)
          /\ UNCHANGED <<senderVars, threadVars>>
    \/ \E n \in 0..(MaxItems + 1) :
          /\ packetData.intact
          /\ CountDamaged(n)
          /\ UNCHANGED <<senderVars, threadVars>>
    \/ \E bytesLeftToRead \in 0..Len(packetData.bytes) :
          /\ packetData # NoPacket
          /\ readElementDataFromBuffer(bytesLeftToRead)
          /\ UNCHANGED <<senderVars, threadVars>>

\* entities of SpecFrame: the fields the two updateModel forms and
\* removeModelWithID read
FrameItem ==
    [id : ModelIDs, creatorTokenID : CreatorTokens \cup {UNKNOWN_MODEL_TOKEN},
     lastEdited : {1, MaxTime}, lastUpdated : {1}, props : Properties,
     position : {"inside"}, shouldDie : {FALSE}]

FrameNext ==
    \/ \E model \in FrameItem : storeModel(model) /\ UNCHANGED <<senderVars, threadVars, wireVars>>
    \/ \E model \in FrameItem : updateModel(model) /\ UNCHANGED <<senderVars, threadVars, wireVars>>
    \/ \E modelID \in ModelItemID, properties \in IdentityProperties :
          updateModelProperties(modelID, properties) /\ UNCHANGED <<senderVars, threadVars, wireVars>>
    \/ \E id \in ModelIDs : removeModelWithID(id) /\ UNCHANGED <<senderVars, threadVars, wireVars>>

IdentityNext ==
    \/ \E model \in IdentityItem : storeModel(model) /\ UNCHANGED <<senderVars, threadVars, wireVars>>
    \/ \E modelID \in ModelItemID, properties \in IdentityProperties :
          updateModelProperties(modelID, properties) /\ UNCHANGED <<senderVars, threadVars, wireVars>>
    \/ \E args \in UpdateItemIDArgs : updateModelItemID(args) /\ UNCHANGED <<senderVars, threadVars, wireVars>>
    \/ \E id \in ModelIDs : removeModelWithID(id) /\ UNCHANGED <<senderVars, threadVars, wireVars>>

SweepNext ==
    \/ \E model \in SweepItem : storeModel(model) /\ UNCHANGED <<senderVars, threadVars, wireVars>>
    \/ \E id \in ModelIDs, properties \in SweepProperties :
          updateModelProperties([isKnownID |-> TRUE, id |-> id, creatorTokenID |-> 1],
                                properties) /\ UNCHANGED <<senderVars, threadVars, wireVars>>
    \/ \E sim \in [1..Len(modelItems) -> Moves] : update(sim) /\ UNCHANGED <<senderVars, threadVars, wireVars>>

(***************************************************************************)
(* OctreeEditPacketSender                                                  *)
(***************************************************************************)
ServerOrder == <<"s1", "s2">>      \* iteration order of the node hash and of the buffer map
Servers == {ServerOrder[i] : i \in 1..Len(ServerOrder)}
Addrs == {"a1", "a2"}              \* octcodes an edit can address
PacketTypes == {"T1", "T2"}        \* edit packet types
SubmittedTypes == {"T1"}           \* types of the edits submitted in SpecSender
ChangingServers == {"s1"}          \* servers that come, go and report their jurisdiction in SpecSender
PacketTypeUnknown == "Unknown"
RecordLens == {1}                  \* byte lengths of one edit record
OriginStamp == 5                   \* the timestamp embedded in a submitted record

NULL == [s \in {} |-> {}]          \* _serverJurisdictions(NULL)
Missing == {"missing"}             \* find(nodeUUID) == end()
\* the region each server is authoritative for once its jurisdiction is known
JurisdictionOf == [s \in Servers |-> IF s = "s1" THEN {"a1"} ELSE {"a1", "a2"}]

\* what dereferencing a null _serverJurisdictions can do
NullDerefOutcomes == {"crash", "within", "outside"}

\* populatePacketHeader writes the packet type header
NumBytesForPacketHeader == 1
SizeofSequence == 2
SizeofTimestamp == 8
HeaderBytes == NumBytesForPacketHeader + SizeofSequence + SizeofTimestamp

EditRecord == [type : PacketTypes, addr : Addrs, len : RecordLens, n : 1..MaxEdits,
               stamp : {OriginStamp}]

NoRecord == [type |-> PacketTypeUnknown, addr |-> "none", len |-> 0, n |-> 0, stamp |-> 0]

\* EditPacketBuffer() of a map entry created by operator[], and the buffer
\* after releaseQueuedPacket
EmptyBuffer ==
    [currentType |-> PacketTypeUnknown, currentSize |-> 0, sequenceAt |-> 0, sequence |-> 0,
     timeAt |-> 0, recs |-> <<>>]

\* serversExist()
ServersExistIgnoringMissing ==
    \E s \in Servers : activeSocket[s]

ServersExist ==
    LET hasServers == \E s \in Servers : activeSocket[s]
        atLeastOneJurisdictionMissing ==
            /\ serverJurisdictions # NULL
            /\ \E s \in Servers : activeSocket[s] /\ serverJurisdictions[s] = Missing
    IN  hasServers /\ ~atLeastOneJurisdictionMissing

\* the sender's own fields, threaded through the handlers; codeColorBuffer is
\* the caller's record buffer the handler works on; sent collects the packets
\* the handler hands to queuePacketForSending, in order; built the sequence
\* numbers of the headers it builds; replayed, dispatched and dropped record
\* what else it did
SenderFields ==
    [releaseQueuedMessagesPending |-> releaseQueuedMessagesPending,
     sequenceNumber |-> sequenceNumber,
     preServerSingleMessagePackets |-> preServerSingleMessagePackets,
     preServerPackets |-> preServerPackets,
     pendingEditPackets |-> pendingEditPackets,
     codeColorBuffer |-> NoRecord,
     sent |-> <<>>,
     built |-> <<>>,
     crashed |-> crashed,
     replayed |-> <<>>,
     dispatched |-> <<>>,
     dropped |-> NoRecord]

\* queuePacketToNode: the packet reaches the transport only if the node has
\* an active socket
QueuePacketToNode(st, nodeUUID, packet) ==
    IF activeSocket[nodeUUID]
    THEN [st EXCEPT !.sent = Append(@, [packet EXCEPT !.node = nodeUUID])]
    ELSE st

\* releaseQueuedPacket
ReleaseQueuedPacket(st, s) ==
    LET b == st.pendingEditPackets[s]
        st1 == IF b.currentSize > 0 /\ b.currentType # PacketTypeUnknown
               THEN QueuePacketToNode(st, s,
                        [node |-> s, type |-> b.currentType, sequence |-> b.sequence,
                         size |-> b.currentSize, recs |-> b.recs])
               ELSE st
    IN  [st1 EXCEPT !.pendingEditPackets[s] = EmptyBuffer]

\* initializePacket without line 305
InitializePacketSameSequence(st, s, type) ==
    LET sequenceAt == NumBytesForPacketHeader
        timeAt == sequenceAt + SizeofSequence
    IN  [st EXCEPT !.pendingEditPackets[s] =
                        [currentType |-> type, currentSize |-> timeAt + SizeofTimestamp,
                         sequenceAt |-> sequenceAt, sequence |-> st.sequenceNumber,
                         timeAt |-> timeAt, recs |-> <<>>],
                   !.built = Append(@, st.sequenceNumber)]

\* initializePacket: the type header, then the sequence number, then the
\* timestamp
InitializePacket(st, s, type) ==
    LET sequenceAt == NumBytesForPacketHeader
        timeAt == sequenceAt + SizeofSequence
    IN  [st EXCEPT !.pendingEditPackets[s] =
                        [currentType |-> type, currentSize |-> timeAt + SizeofTimestamp,
                         sequenceAt |-> sequenceAt, sequence |-> st.sequenceNumber,
                         timeAt |-> timeAt, recs |-> <<>>],
                   !.built = Append(@, st.sequenceNumber),
                   !.sequenceNumber = (@ + 1) % 65536]

\* adjustEditPacketForClockSkew: the timestamp embedded in the record is
\* rewritten in the buffer it is given
AdjustEditPacketForClockSkew(codeColorBuffer, skew) ==
    [codeColorBuffer EXCEPT !.stamp = @ + skew]

\* queueOctreeEditMessage, lines 270-271: memcpy at _currentSize
AppendRecordAtHeader(b, codeColorBuffer) ==
    [b EXCEPT !.recs = <<[at |-> HeaderBytes, rec |-> codeColorBuffer]>> \o @,
              !.currentSize = @ + codeColorBuffer.len]

AppendRecord(b, codeColorBuffer) ==
    [b EXCEPT !.recs = Append(@, [at |-> b.currentSize, rec |-> codeColorBuffer]),
              !.currentSize = @ + codeColorBuffer.len]

\* queueOctreeEditMessage, lines 247-272, without the type test of line 251
QueueToBufferSizeOnly(st, s, type) ==
    LET b0 == st.pendingEditPackets[s]
        st1 == IF b0.currentSize + st.codeColorBuffer.len >= MaxPacketSize
               THEN InitializePacket(ReleaseQueuedPacket(st, s), s, type)
               ELSE st
        b1 == st1.pendingEditPackets[s]
        st2 == IF type # b1.currentType /\ b1.currentSize = 0
               THEN InitializePacket(st1, s, type)
               ELSE st1
        st3 == IF clockSkew[s] # 0
               THEN [st2 EXCEPT !.codeColorBuffer =
                                    AdjustEditPacketForClockSkew(@, clockSkew[s])]
               ELSE st2
    IN  [st3 EXCEPT !.pendingEditPackets[s] = AppendRecord(@, st3.codeColorBuffer)]

\* queueOctreeEditMessage, lines 247-272: the record in the caller's buffer
\* into one server's packet buffer
QueueToBuffer(st, s, type) ==
    LET b0 == st.pendingEditPackets[s]
        switchOrFull == \/ type # b0.currentType /\ b0.currentSize > 0
                        \/ b0.currentSize + st.codeColorBuffer.len >= MaxPacketSize
        st1 == IF switchOrFull
               THEN InitializePacket(ReleaseQueuedPacket(st, s), s, type)
               ELSE st
        b1 == st1.pendingEditPackets[s]
        st2 == IF type # b1.currentType /\ b1.currentSize = 0
               THEN InitializePacket(st1, s, type)
               ELSE st1
        st3 == IF clockSkew[s] # 0
               THEN [st2 EXCEPT !.codeColorBuffer =
                                    AdjustEditPacketForClockSkew(@, clockSkew[s])]
               ELSE st2
    IN  [st3 EXCEPT !.pendingEditPackets[s] = AppendRecord(@, st3.codeColorBuffer)]

IsMyJurisdictionAlways(s, addr) == TRUE

\* queueOctreeEditMessage, lines 234-245
IsMyJurisdiction(s, addr) ==
    IF serverJurisdictions = NULL THEN TRUE
    ELSE IF serverJurisdictions[s] # Missing THEN addr \in serverJurisdictions[s]
    ELSE FALSE

\* queueOctreeEditMessage, lines 230-274: the loop over the node hash
RECURSIVE QueueToServers(_, _, _)
QueueToServers(st, type, i) ==
    IF i > Len(ServerOrder) THEN st
    ELSE LET s == ServerOrder[i]
         IN  QueueToServers(IF activeSocket[s] /\ IsMyJurisdiction(s, st.codeColorBuffer.addr)
                            THEN QueueToBuffer(st, s, type)
                            ELSE st,
                            type, i + 1)

\* int allPendingMessages, lines 156 and 214
AllPendingOwnListOnly(own, other) == Len(own)

AllPendingMessages(own, other) == Len(own) + Len(other)

\* the overflow branch, lines 158-160 and 216-218: erase(begin()) of the list
\* that was just pushed to
EraseNewest(list) == SubSeq(list, 1, Len(list) - 1)

EraseOldest(list) == Tail(list)

\* queueOctreeEditMessage keeping an edit no server took as pending
QueueOctreeEditMessageKeepingUnowned(st, rec) ==
    IF ~shouldSend THEN st
    ELSE IF ~ServersExist
    THEN IF maxPendingMessages > 0
         THEN LET pushed == Append(st.preServerPackets, rec)
                  over == AllPendingMessages(pushed, st.preServerSingleMessagePackets)
                              > maxPendingMessages
              IN  [st EXCEPT !.preServerPackets = IF over THEN EraseOldest(pushed) ELSE pushed,
                             !.dropped = IF over THEN Head(pushed) ELSE @]
         ELSE st
    ELSE LET st1 == QueueToServers([st EXCEPT !.codeColorBuffer = rec], rec.type, 1)
         IN  IF st1.pendingEditPackets = st.pendingEditPackets
             THEN [st1 EXCEPT !.preServerPackets = Append(@, rec)]
             ELSE st1

\* queueOctreeEditMessage
QueueOctreeEditMessage(st, rec) ==
    IF ~shouldSend THEN st
    ELSE IF ~ServersExist
    THEN IF maxPendingMessages > 0
         THEN LET pushed == Append(st.preServerPackets, rec)
                  over == AllPendingMessages(pushed, st.preServerSingleMessagePackets)
                              > maxPendingMessages
              IN  [st EXCEPT !.preServerPackets = IF over THEN EraseOldest(pushed) ELSE pushed,
                             !.dropped = IF over THEN Head(pushed) ELSE @]
         ELSE st
    ELSE QueueToServers([st EXCEPT !.codeColorBuffer = rec], rec.type, 1)

\* queuePendingPacketToNodes
QueuePendingPacketToNodes(st, packet) ==
    IF maxPendingMessages > 0
    THEN LET pushed == Append(st.preServerSingleMessagePackets, packet)
             over == AllPendingMessages(pushed, st.preServerPackets) > maxPendingMessages
         IN  [st EXCEPT !.preServerSingleMessagePackets =
                             IF over THEN EraseOldest(pushed) ELSE pushed,
                        !.dropped = IF over THEN Head(pushed) ELSE @]
    ELSE st

\* queuePacketToNodes, lines 181-194: the loop over the node hash; with
\* _serverJurisdictions null the lookup at line 188 is undefined
RECURSIVE QueuePacketToNodesLoop(_, _, _, _)
QueuePacketToNodesLoop(st, packet, i, ub) ==
    IF st.crashed \/ i > Len(ServerOrder) THEN st
    ELSE LET s == ServerOrder[i]
             within == IF serverJurisdictions = NULL THEN ub = "within"
                       ELSE /\ serverJurisdictions[s] # Missing
                            /\ packet.addr \in serverJurisdictions[s]
             st1 == IF ~activeSocket[s] THEN st
                    ELSE IF serverJurisdictions = NULL /\ ub = "crash"
                         THEN [st EXCEPT !.crashed = TRUE]
                    ELSE IF within
                         THEN QueuePacketToNode(st, s,
                                  [node |-> s, type |-> packet.type, sequence |-> 0,
                                   size |-> packet.len,
                                   recs |-> <<[at |-> HeaderBytes, rec |-> packet]>>])
                    ELSE st
         IN  QueuePacketToNodesLoop(st1, packet, i + 1, ub)

\* queuePacketToNodes
QueuePacketToNodes(st, packet, ub) ==
    IF ~shouldSend THEN st
    ELSE QueuePacketToNodesLoop(st, packet, 1, ub)

\* releaseQueuedMessages, lines 284-286
RECURSIVE ReleaseAll(_, _)
ReleaseAll(st, i) ==
    IF i > Len(ServerOrder) THEN st
    ELSE ReleaseAll(ReleaseQueuedPacket(st, ServerOrder[i]), i + 1)

\* releaseQueuedMessages
ReleaseQueuedMessages(st) ==
    IF ~ServersExist
    THEN [st EXCEPT !.releaseQueuedMessagesPending = TRUE]
    ELSE ReleaseAll(st, 1)

\* processPreServerExistsPackets, lines 124-129
RECURSIVE DrainSingleMessagePackets(_, _)
DrainSingleMessagePackets(st, ub) ==
    IF st.preServerSingleMessagePackets = <<>> THEN st
    ELSE LET packet == Head(st.preServerSingleMessagePackets)
             st1 == QueuePacketToNodes([st EXCEPT !.dispatched = Append(@, packet)], packet, ub)
         IN  IF st1.crashed THEN st1
             ELSE DrainSingleMessagePackets(
                      [st1 EXCEPT !.preServerSingleMessagePackets = Tail(@)], ub)

\* processPreServerExistsPackets, lines 132-137
RECURSIVE DrainPackets(_)
DrainPackets(st) ==
    IF st.preServerPackets = <<>> THEN st
    ELSE LET packet == Head(st.preServerPackets)
             st1 == QueueOctreeEditMessage([st EXCEPT !.replayed = Append(@, packet)], packet)
         IN  DrainPackets([st1 EXCEPT !.preServerPackets = Tail(@)])

\* processPreServerExistsPackets
ProcessPreServerExistsPackets(st, ub) ==
    LET st1 == DrainSingleMessagePackets(st, ub)
        st2 == IF st1.crashed THEN st1 ELSE DrainPackets(st1)
    IN  IF st2.crashed THEN st2
        ELSE IF st2.releaseQueuedMessagesPending
             THEN [ReleaseQueuedMessages(st2) EXCEPT !.releaseQueuedMessagesPending = FALSE]
             ELSE st2

\* process(), lines 319-321
Process(st, ub) ==
    IF ServersExist /\ (st.preServerPackets # <<>> \/ st.preServerSingleMessagePackets # <<>>)
    THEN ProcessPreServerExistsPackets(st, ub)
    ELSE st

NoCall ==
    [op |-> "none", rec |-> NoRecord, servers |-> FALSE, drained |-> FALSE,
     preSingles |-> <<>>, prePackets |-> <<>>, replayed |-> <<>>, dispatched |-> <<>>,
     dropped |-> NoRecord, bootEdits |-> <<>>, bootSingles |-> <<>>, sent |-> <<>>,
     built |-> <<>>]

NoBootLog == [edits |-> <<>>, singles |-> <<>>]

\* the state after OctreeEditPacketSender(), with no node known yet
SenderStart ==
    /\ activeSocket = [s \in Servers |-> FALSE]
    /\ serverJurisdictions = NULL
    /\ clockSkew = [s \in Servers |-> 0]
    /\ shouldSend = TRUE
    /\ maxPendingMessages \in {0, MaxPending}
    /\ releaseQueuedMessagesPending = FALSE
    /\ sequenceNumber = 0
    /\ preServerSingleMessagePackets = <<>>
    /\ preServerPackets = <<>>
    /\ pendingEditPackets = [s \in Servers |-> EmptyBuffer]
    /\ crashed = FALSE
    /\ nextId = 1
    /\ bootLog = NoBootLog
    /\ releaseLatchedFor = {}
    /\ headersBuilt = 0
    /\ senderCall = NoCall

\* servers whose buffer held records and was emptied by releaseQueuedPacket
\* between the two buffer maps
Flushed(before, after) ==
    {s \in Servers : /\ before[s].currentSize > 0
                     /\ \/ after[s].currentSize = 0
                        \/ after[s].sequence # before[s].sequence}

\* write the sender's fields back
Commit(st) ==
    /\ releaseLatchedFor' =
            (releaseLatchedFor
                \cup IF st.releaseQueuedMessagesPending /\ ~releaseQueuedMessagesPending
                     THEN {s \in Servers : pendingEditPackets[s].currentSize > 0}
                     ELSE {})
            \ Flushed(pendingEditPackets, st.pendingEditPackets)
    /\ headersBuilt' = headersBuilt + Len(st.built)
    /\ releaseQueuedMessagesPending' = st.releaseQueuedMessagesPending
    /\ sequenceNumber' = st.sequenceNumber
    /\ preServerSingleMessagePackets' = st.preServerSingleMessagePackets
    /\ preServerPackets' = st.preServerPackets
    /\ pendingEditPackets' = st.pendingEditPackets
    /\ crashed' = st.crashed

queueOctreeEditMessage(type, addr, len) ==
    /\ ~crashed
    /\ nextId <= MaxEdits
    /\ LET rec == [type |-> type, addr |-> addr, len |-> len, n |-> nextId,
                   stamp |-> OriginStamp]
           st == QueueOctreeEditMessage(SenderFields, rec)
       IN  /\ Commit(st)
           /\ bootLog' = IF shouldSend /\ ~ServersExist
                         THEN [bootLog EXCEPT !.edits = Append(@, rec.n)]
                         ELSE bootLog
           /\ senderCall' = [NoCall EXCEPT !.op = "queueOctreeEditMessage", !.rec = rec,
                                           !.servers = ServersExist, !.dropped = st.dropped,
                                           !.sent = st.sent,
                                           !.built = st.built]
    /\ nextId' = nextId + 1
    /\ UNCHANGED <<envVars, configVars>>

queuePendingPacketToNodes(type, addr, len) ==
    /\ ~crashed
    /\ nextId <= MaxEdits
    /\ LET packet == [type |-> type, addr |-> addr, len |-> len, n |-> nextId,
                      stamp |-> OriginStamp]
           st == QueuePendingPacketToNodes(SenderFields, packet)
       IN  /\ Commit(st)
           /\ bootLog' = [bootLog EXCEPT !.singles = Append(@, packet.n)]
           /\ senderCall' = [NoCall EXCEPT !.op = "queuePendingPacketToNodes", !.rec = packet,
                                           !.servers = ServersExist, !.dropped = st.dropped,
                                           !.sent = st.sent,
                                           !.built = st.built]
    /\ nextId' = nextId + 1
    /\ UNCHANGED <<envVars, configVars>>

releaseQueuedMessages ==
    /\ ~crashed
    /\ LET st == ReleaseQueuedMessages(SenderFields)
       IN  /\ Commit(st)
           /\ senderCall' = [NoCall EXCEPT !.op = "releaseQueuedMessages",
                                           !.servers = ServersExist, !.sent = st.sent,
                                           !.built = st.built]
    /\ UNCHANGED <<envVars, configVars, nextId, bootLog>>

process(ub) ==
    /\ ~crashed
    /\ LET st == Process(SenderFields, ub)
           drained == ServersExist /\ (preServerPackets # <<>> \/ preServerSingleMessagePackets # <<>>)
       IN  /\ Commit(st)
           /\ bootLog' = IF drained THEN NoBootLog ELSE bootLog
           /\ senderCall' = [NoCall EXCEPT !.op = "process",
                                           !.servers = ServersExist,
                                           !.drained = drained,
                                           !.preSingles = preServerSingleMessagePackets,
                                           !.prePackets = preServerPackets,
                                           !.replayed = st.replayed,
                                           !.dispatched = st.dispatched,
                                           !.sent = st.sent,
                                           !.built = st.built,
                                           !.bootEdits = IF drained THEN bootLog.edits ELSE <<>>,
                                           !.bootSingles = IF drained THEN bootLog.singles ELSE <<>>]
    /\ UNCHANGED <<envVars, configVars, nextId>>

(***************************************************************************)
(* Environment: the node list and the jurisdiction map the sender reads    *)
(***************************************************************************)
\* a server of getMyNodeType() gets an active socket
NodeActivated(s) ==
    /\ ~crashed
    /\ ~activeSocket[s]
    /\ activeSocket' = [activeSocket EXCEPT ![s] = TRUE]
    /\ UNCHANGED <<serverJurisdictions, clockSkew, configVars, senderState, ghostVars,
                   senderCall>>

\* a server loses its active socket or leaves the node hash
NodeDeactivated(s) ==
    /\ ~crashed
    /\ activeSocket[s]
    /\ activeSocket' = [activeSocket EXCEPT ![s] = FALSE]
    /\ UNCHANGED <<serverJurisdictions, clockSkew, configVars, senderState, ghostVars,
                   senderCall>>

\* the owner hands the sender its (still empty) jurisdiction map
SetServerJurisdictions ==
    /\ ~crashed
    /\ serverJurisdictions = NULL
    /\ serverJurisdictions' = [s \in Servers |-> Missing]
    /\ UNCHANGED <<activeSocket, clockSkew, configVars, senderState, ghostVars, senderCall>>

\* the jurisdiction of one server becomes known or changes
JurisdictionReceived(s) ==
    /\ ~crashed
    /\ serverJurisdictions # NULL
    /\ serverJurisdictions[s] = Missing
    /\ serverJurisdictions' = [serverJurisdictions EXCEPT ![s] = JurisdictionOf[s]]
    /\ UNCHANGED <<activeSocket, clockSkew, configVars, senderState, ghostVars, senderCall>>

SenderNext ==
    \/ \E type \in SubmittedTypes, addr \in Addrs, len \in RecordLens :
          queueOctreeEditMessage(type, addr, len) /\ UNCHANGED <<storeVars, threadVars, wireVars>>
    \/ \E type \in SubmittedTypes, addr \in Addrs, len \in RecordLens :
          queuePendingPacketToNodes(type, addr, len) /\ UNCHANGED <<storeVars, threadVars, wireVars>>
    \/ releaseQueuedMessages /\ UNCHANGED <<storeVars, threadVars, wireVars>>
    \/ \E ub \in NullDerefOutcomes : process(ub) /\ UNCHANGED <<storeVars, threadVars, wireVars>>
    \/ \E s \in ChangingServers : NodeActivated(s) /\ UNCHANGED <<storeVars, threadVars, wireVars>>
    \/ \E s \in ChangingServers : NodeDeactivated(s) /\ UNCHANGED <<storeVars, threadVars, wireVars>>
    \/ SetServerJurisdictions /\ UNCHANGED <<storeVars, threadVars, wireVars>>
    \/ \E s \in ChangingServers : JurisdictionReceived(s) /\ UNCHANGED <<storeVars, threadVars, wireVars>>

(***************************************************************************)
(* Batching for one server: record types and lengths                       *)
(***************************************************************************)
BatchLens == {1, 3, 4}             \* 3 fills a fresh packet exactly, 4 does not fit one
SequenceStarts == {0, 65534}       \* headers a sender has built before the run starts
BatchServer == "s1"
BatchAddr == "a1"

\* a sender that has built some headers and flushed them, with one server
\* active and every jurisdiction known
BatchStart ==
    /\ activeSocket = [s \in Servers |-> s = BatchServer]
    /\ serverJurisdictions = JurisdictionOf
    /\ clockSkew = [s \in Servers |-> 0]
    /\ shouldSend = TRUE
    /\ maxPendingMessages = MaxPending
    /\ releaseQueuedMessagesPending = FALSE
    /\ sequenceNumber \in SequenceStarts
    /\ preServerSingleMessagePackets = <<>>
    /\ preServerPackets = <<>>
    /\ pendingEditPackets = [s \in Servers |-> EmptyBuffer]
    /\ crashed = FALSE
    /\ nextId = 1
    /\ bootLog = NoBootLog
    /\ releaseLatchedFor = {}
    /\ headersBuilt = sequenceNumber
    /\ senderCall = NoCall

BatchNext ==
    \/ \E type \in PacketTypes, len \in BatchLens :
          queueOctreeEditMessage(type, BatchAddr, len) /\ UNCHANGED <<storeVars, threadVars, wireVars>>
    \/ releaseQueuedMessages /\ UNCHANGED <<storeVars, threadVars, wireVars>>

(***************************************************************************)
(* Routing to two servers that come and go                                 *)
(***************************************************************************)
RouteAddrs == {"a1", "a2", "a3"}   \* a3 lies in no server's jurisdiction
RouteType == "T1"
RouteLen == 1
SkewValues == {0, 1}               \* clock offsets of a server
RouteChanging == {"s2"}            \* the server that comes and goes in SpecRoute

\* a freshly constructed sender with both servers active; the jurisdiction
\* map is unset or holds every jurisdiction
RouteStart ==
    /\ activeSocket = [s \in Servers |-> TRUE]
    /\ serverJurisdictions \in {NULL, JurisdictionOf}
    /\ clockSkew \in [Servers -> SkewValues]
    /\ shouldSend = TRUE
    /\ maxPendingMessages = MaxPending
    /\ releaseQueuedMessagesPending = FALSE
    /\ sequenceNumber = 0
    /\ preServerSingleMessagePackets = <<>>
    /\ preServerPackets = <<>>
    /\ pendingEditPackets = [s \in Servers |-> EmptyBuffer]
    /\ crashed = FALSE
    /\ nextId = 1
    /\ bootLog = NoBootLog
    /\ releaseLatchedFor = {}
    /\ headersBuilt = 0
    /\ senderCall = NoCall

RouteNext ==
    \/ \E addr \in RouteAddrs :
          queueOctreeEditMessage(RouteType, addr, RouteLen) /\ UNCHANGED <<storeVars, threadVars, wireVars>>
    \/ releaseQueuedMessages /\ UNCHANGED <<storeVars, threadVars, wireVars>>
    \/ \E s \in RouteChanging : NodeActivated(s) /\ UNCHANGED <<storeVars, threadVars, wireVars>>
    \/ \E s \in RouteChanging : NodeDeactivated(s) /\ UNCHANGED <<storeVars, threadVars, wireVars>>

(***************************************************************************)
(* Threads: the sender's calls interleaved statement by statement.  The    *)
(* only lock of the class is _pendingPacketsLock; a step is what a thread  *)
(* does between two points where another thread can run.                   *)
(***************************************************************************)
MaxCalls == 2           \* calls the producers make in one behaviour
Producers == {"p1", "p2"}
Dispatcher == "d"
Threads == Producers \cup {Dispatcher}
ThreadServer == "s1"    \* the one server that becomes active
ThreadType == "T1"
ThreadAddr == "a1"
ThreadLen == 1

NoFrame == [rec |-> NoRecord, list |-> "none", ret |-> "idle"]

\* no thread is inside the sender
ThreadStart ==
    /\ pc = [t \in Threads |-> "idle"]
    /\ frame = [t \in Threads |-> NoFrame]
    /\ pendingPacketsLock = "free"
    /\ transport = <<>>
    /\ appended = {}

\* the sender after construction and setServerJurisdictions, no node known
ThreadsStart ==
    /\ activeSocket = [s \in Servers |-> FALSE]
    /\ serverJurisdictions = JurisdictionOf
    /\ clockSkew = [s \in Servers |-> 0]
    /\ shouldSend = TRUE
    /\ maxPendingMessages = MaxPending
    /\ releaseQueuedMessagesPending = FALSE
    /\ sequenceNumber = 0
    /\ preServerSingleMessagePackets = <<>>
    /\ preServerPackets = <<>>
    /\ pendingEditPackets = [s \in Servers |-> EmptyBuffer]
    /\ crashed = FALSE
    /\ nextId = 1
    /\ bootLog = NoBootLog
    /\ releaseLatchedFor = {}
    /\ headersBuilt = 0
    /\ senderCall = NoCall

\* what no step of a thread writes
threadFixed ==
    <<serverJurisdictions, clockSkew, shouldSend, maxPendingMessages, crashed, bootLog,
      releaseLatchedFor, headersBuilt, senderCall, storeVars, wireVars>>

\* the records of a buffer's memory outside the bytes [from, to)
Outside(recs, from, to) == SelectSeq(recs, LAMBDA e : e.at < from \/ e.at >= to)

\* memcpy of a record to offset at of a buffer's memory
Memcpy(recs, at, codeColorBuffer) ==
    SelectSeq(recs, LAMBDA e : e.at < at)
        \o <<[at |-> at, rec |-> codeColorBuffer]>>
        \o SelectSeq(recs, LAMBDA e : e.at >= at + codeColorBuffer.len)

\* the records a receiver finds in the first size bytes of a buffer
Payload(b) == SelectSeq(b.recs, LAMBDA e : e.at >= HeaderBytes /\ e.at < b.currentSize)

\* queuePacketToNode, lines 96-98
Handed(node, packet) ==
    IF activeSocket[node] THEN Append(transport, packet) ELSE transport

\* releaseQueuedPacket, lines 291-293, called by thread t: what reaches the
\* transport
ReleasedTransport(t, node) ==
    LET b == pendingEditPackets[node]
    IN  IF b.currentSize > 0 /\ b.currentType # PacketTypeUnknown
        THEN Handed(node, [node |-> node, type |-> b.currentType, sequence |-> b.sequence,
                           size |-> b.currentSize, recs |-> Payload(b), by |-> t])
        ELSE transport

\* releaseQueuedPacket, lines 294-295: the buffer's memory stays as it is
ReleasedBuffer(b) == [b EXCEPT !.currentSize = 0, !.currentType = PacketTypeUnknown]

Return(t) == pc' = [pc EXCEPT ![t] = frame[t].ret]

\* queueOctreeEditMessage, lines 201-222: entry, up to the lock
CallQueueOctreeEditMessage(t) ==
    /\ pc[t] = "idle"
    /\ nextId <= MaxCalls
    /\ nextId' = nextId + 1
    /\ frame' = [frame EXCEPT ![t] =
                    [rec |-> [type |-> ThreadType, addr |-> ThreadAddr, len |-> ThreadLen,
                              n |-> nextId, stamp |-> OriginStamp],
                     list |-> "packets", ret |-> "idle"]]
    /\ pc' = [pc EXCEPT ![t] = IF ~shouldSend THEN "idle"
                               ELSE IF ServersExist THEN "act_check"
                               ELSE IF maxPendingMessages > 0 THEN "boot_lock"
                               ELSE "idle"]
    /\ UNCHANGED <<activeSocket, releaseQueuedMessagesPending, sequenceNumber,
                   preServerSingleMessagePackets, preServerPackets, pendingEditPackets,
                   pendingPacketsLock, transport, appended, threadFixed>>

\* queuePendingPacketToNodes, lines 151-152: entry, up to the lock
CallQueuePendingPacketToNodes(t) ==
    /\ pc[t] = "idle"
    /\ nextId <= MaxCalls
    /\ nextId' = nextId + 1
    /\ frame' = [frame EXCEPT ![t] =
                    [rec |-> [type |-> ThreadType, addr |-> ThreadAddr, len |-> ThreadLen,
                              n |-> nextId, stamp |-> OriginStamp],
                     list |-> "singles", ret |-> "idle"]]
    /\ pc' = [pc EXCEPT ![t] = IF maxPendingMessages > 0 THEN "boot_lock" ELSE "idle"]
    /\ UNCHANGED <<activeSocket, releaseQueuedMessagesPending, sequenceNumber,
                   preServerSingleMessagePackets, preServerPackets, pendingEditPackets,
                   pendingPacketsLock, transport, appended, threadFixed>>

\* _pendingPacketsLock.lock(), lines 153 and 210; a QMutex does not nest
PendingLock(t) ==
    /\ pc[t] = "boot_lock"
    /\ pendingPacketsLock = "free"
    /\ pendingPacketsLock' = t
    /\ pc' = [pc EXCEPT ![t] = "boot_push"]
    /\ UNCHANGED <<activeSocket, releaseQueuedMessagesPending, sequenceNumber,
                   preServerSingleMessagePackets, preServerPackets, pendingEditPackets,
                   nextId, frame, transport, appended, threadFixed>>

\* lines 154-161 and 211-219: push_back and the overflow erase
PendingPush(t) ==
    /\ pc[t] = "boot_push"
    /\ IF frame[t].list = "singles"
       THEN LET pushed == Append(preServerSingleMessagePackets, frame[t].rec)
            IN  /\ preServerSingleMessagePackets' =
                       IF AllPendingMessages(pushed, preServerPackets) > maxPendingMessages
                       THEN EraseOldest(pushed) ELSE pushed
                /\ UNCHANGED preServerPackets
       ELSE LET pushed == Append(preServerPackets, frame[t].rec)
            IN  /\ preServerPackets' =
                       IF AllPendingMessages(pushed, preServerSingleMessagePackets)
                              > maxPendingMessages
                       THEN EraseOldest(pushed) ELSE pushed
                /\ UNCHANGED preServerSingleMessagePackets
    /\ pc' = [pc EXCEPT ![t] = "boot_unlock"]
    /\ UNCHANGED <<activeSocket, releaseQueuedMessagesPending, sequenceNumber,
                   pendingEditPackets, nextId, frame, pendingPacketsLock, transport,
                   appended, threadFixed>>

\* _pendingPacketsLock.unlock(), lines 162 and 220, and the return
PendingUnlock(t) ==
    /\ pc[t] = "boot_unlock"
    /\ pendingPacketsLock' = "free"
    /\ Return(t)
    /\ UNCHANGED <<activeSocket, releaseQueuedMessagesPending, sequenceNumber,
                   preServerSingleMessagePackets, preServerPackets, pendingEditPackets,
                   nextId, frame, transport, appended, threadFixed>>

\* queueOctreeEditMessage, lines 230-260 for the server: the jurisdiction
\* test, the flush of a full or other-typed buffer, and the choice between
\* initializePacket and the append
ActiveCheck(t) ==
    /\ pc[t] = "act_check"
    /\ LET s == ThreadServer
           rec == frame[t].rec
           b == pendingEditPackets[s]
           switchOrFull == \/ rec.type # b.currentType /\ b.currentSize > 0
                           \/ b.currentSize + rec.len >= MaxPacketSize
       IN  IF ~(activeSocket[s] /\ IsMyJurisdiction(s, rec.addr))
           THEN /\ Return(t)
                /\ UNCHANGED <<pendingEditPackets, transport>>
           ELSE IF switchOrFull
           THEN /\ transport' = ReleasedTransport(t, s)
                /\ pendingEditPackets' = [pendingEditPackets EXCEPT ![s] = ReleasedBuffer(b)]
                /\ pc' = [pc EXCEPT ![t] = "act_seq"]
           ELSE /\ pc' = [pc EXCEPT ![t] =
                             IF rec.type # b.currentType /\ b.currentSize = 0
                             THEN "act_seq" ELSE "act_copy"]
                /\ UNCHANGED <<pendingEditPackets, transport>>
    /\ UNCHANGED <<activeSocket, releaseQueuedMessagesPending, sequenceNumber,
                   preServerSingleMessagePackets, preServerPackets, nextId, frame,
                   pendingPacketsLock, appended, threadFixed>>

\* initializePacket, lines 299-304: the type header and the sequence number
\* are written, _currentSize is past them
InitializeSequence(t) ==
    /\ pc[t] = "act_seq"
    /\ LET s == ThreadServer
           b == pendingEditPackets[s]
           sequenceAt == NumBytesForPacketHeader
       IN  pendingEditPackets' =
               [pendingEditPackets EXCEPT ![s] =
                   [b EXCEPT !.currentSize = sequenceAt + SizeofSequence,
                             !.sequenceAt = sequenceAt,
                             !.sequence = sequenceNumber,
                             !.recs = Outside(b.recs, 0, sequenceAt + SizeofSequence)]]
    /\ pc' = [pc EXCEPT ![t] = "act_inc"]
    /\ UNCHANGED <<activeSocket, releaseQueuedMessagesPending, sequenceNumber,
                   preServerSingleMessagePackets, preServerPackets, nextId, frame,
                   pendingPacketsLock, transport, appended, threadFixed>>

\* initializePacket, lines 305-313: _sequenceNumber++, the timestamp at
\* _currentSize, and _currentType
InitializeRest(t) ==
    /\ pc[t] = "act_inc"
    /\ sequenceNumber' = (sequenceNumber + 1) % 65536
    /\ LET s == ThreadServer
           b == pendingEditPackets[s]
       IN  pendingEditPackets' =
               [pendingEditPackets EXCEPT ![s] =
                   [b EXCEPT !.timeAt = b.currentSize,
                             !.currentSize = b.currentSize + SizeofTimestamp,
                             !.currentType = frame[t].rec.type,
                             !.recs = Outside(b.recs, b.currentSize,
                                              b.currentSize + SizeofTimestamp)]]
    /\ pc' = [pc EXCEPT ![t] = "act_copy"]
    /\ UNCHANGED <<activeSocket, releaseQueuedMessagesPending,
                   preServerSingleMessagePackets, preServerPackets, nextId, frame,
                   pendingPacketsLock, transport, appended, threadFixed>>

\* queueOctreeEditMessage, line 270: memcpy at _currentSize
ActiveCopy(t) ==
    /\ pc[t] = "act_copy"
    /\ LET s == ThreadServer
           b == pendingEditPackets[s]
       IN  pendingEditPackets' =
               [pendingEditPackets EXCEPT ![s].recs = Memcpy(@, b.currentSize, frame[t].rec)]
    /\ pc' = [pc EXCEPT ![t] = "act_advance"]
    /\ UNCHANGED <<activeSocket, releaseQueuedMessagesPending, sequenceNumber,
                   preServerSingleMessagePackets, preServerPackets, nextId, frame,
                   pendingPacketsLock, transport, appended, threadFixed>>

\* queueOctreeEditMessage, line 271: _currentSize += length, and the return
ActiveAdvance(t) ==
    /\ pc[t] = "act_advance"
    /\ pendingEditPackets' =
           [pendingEditPackets EXCEPT ![ThreadServer].currentSize = @ + frame[t].rec.len]
    /\ appended' = appended \cup {frame[t].rec.n}
    /\ Return(t)
    /\ UNCHANGED <<activeSocket, releaseQueuedMessagesPending, sequenceNumber,
                   preServerSingleMessagePackets, preServerPackets, nextId, frame,
                   pendingPacketsLock, transport, threadFixed>>

\* releaseQueuedMessages called by the dispatch thread
ThreadReleaseQueuedMessages(t) ==
    /\ pc[t] = "idle"
    /\ IF ~ServersExist
       THEN /\ releaseQueuedMessagesPending' = TRUE
            /\ UNCHANGED <<pendingEditPackets, transport>>
       ELSE /\ transport' = ReleasedTransport(t, ThreadServer)
            /\ pendingEditPackets' =
                   [pendingEditPackets EXCEPT ![ThreadServer] = ReleasedBuffer(@)]
            /\ UNCHANGED releaseQueuedMessagesPending
    /\ UNCHANGED <<activeSocket, sequenceNumber, preServerSingleMessagePackets,
                   preServerPackets, nextId, pc, frame, pendingPacketsLock, appended,
                   threadFixed>>

\* process(), line 319
CallProcess(t) ==
    /\ pc[t] = "idle"
    /\ ServersExist
    /\ preServerPackets # <<>> \/ preServerSingleMessagePackets # <<>>
    /\ pc' = [pc EXCEPT ![t] = "drain_lock"]
    /\ UNCHANGED <<activeSocket, releaseQueuedMessagesPending, sequenceNumber,
                   preServerSingleMessagePackets, preServerPackets, pendingEditPackets,
                   nextId, frame, pendingPacketsLock, transport, appended, threadFixed>>

\* processPreServerExistsPackets, line 123
DrainLock(t) ==
    /\ pc[t] = "drain_lock"
    /\ pendingPacketsLock = "free"
    /\ pendingPacketsLock' = t
    /\ pc' = [pc EXCEPT ![t] = "drain_single"]
    /\ UNCHANGED <<activeSocket, releaseQueuedMessagesPending, sequenceNumber,
                   preServerSingleMessagePackets, preServerPackets, pendingEditPackets,
                   nextId, frame, transport, appended, threadFixed>>

\* processPreServerExistsPackets, lines 124-129: one turn of the first loop,
\* queuePacketToNodes and the erase
DrainSingle(t) ==
    /\ pc[t] = "drain_single"
    /\ IF preServerSingleMessagePackets # <<>>
       THEN LET packet == Head(preServerSingleMessagePackets)
                s == ThreadServer
            IN  /\ transport' =
                       IF activeSocket[s] /\ IsMyJurisdiction(s, packet.addr)
                       THEN Handed(s, [node |-> s, type |-> packet.type, sequence |-> -1,
                                       size |-> packet.len,
                                       recs |-> <<[at |-> 0, rec |-> packet]>>,
                                       by |-> t])
                       ELSE transport
                /\ preServerSingleMessagePackets' = Tail(preServerSingleMessagePackets)
                /\ UNCHANGED pc
       ELSE /\ pc' = [pc EXCEPT ![t] = "drain_packet"]
            /\ UNCHANGED <<transport, preServerSingleMessagePackets>>
    /\ UNCHANGED <<activeSocket, releaseQueuedMessagesPending, sequenceNumber,
                   preServerPackets, pendingEditPackets, nextId, frame,
                   pendingPacketsLock, appended, threadFixed>>

\* processPreServerExistsPackets, lines 132-134: one turn of the second loop
\* enters queueOctreeEditMessage with the front packet
DrainPacket(t) ==
    /\ pc[t] = "drain_packet"
    /\ IF preServerPackets # <<>>
       THEN /\ frame' = [frame EXCEPT ![t] =
                            [rec |-> Head(preServerPackets), list |-> "packets",
                             ret |-> "drain_erase"]]
            /\ pc' = [pc EXCEPT ![t] = IF ~shouldSend THEN "drain_erase"
                                       ELSE IF ServersExist THEN "act_check"
                                       ELSE IF maxPendingMessages > 0 THEN "boot_lock"
                                       ELSE "drain_erase"]
       ELSE /\ pc' = [pc EXCEPT ![t] = "drain_unlock"]
            /\ UNCHANGED frame
    /\ UNCHANGED <<activeSocket, releaseQueuedMessagesPending, sequenceNumber,
                   preServerSingleMessagePackets, preServerPackets, pendingEditPackets,
                   nextId, pendingPacketsLock, transport, appended, threadFixed>>

\* processPreServerExistsPackets, lines 135-136
DrainErase(t) ==
    /\ pc[t] = "drain_erase"
    /\ preServerPackets' = Tail(preServerPackets)
    /\ pc' = [pc EXCEPT ![t] = "drain_packet"]
    /\ UNCHANGED <<activeSocket, releaseQueuedMessagesPending, sequenceNumber,
                   preServerSingleMessagePackets, pendingEditPackets, nextId, frame,
                   pendingPacketsLock, transport, appended, threadFixed>>

\* processPreServerExistsPackets, line 138
DrainUnlock(t) ==
    /\ pc[t] = "drain_unlock"
    /\ pendingPacketsLock' = "free"
    /\ pc' = [pc EXCEPT ![t] = "drain_latch"]
    /\ UNCHANGED <<activeSocket, releaseQueuedMessagesPending, sequenceNumber,
                   preServerSingleMessagePackets, preServerPackets, pendingEditPackets,
                   nextId, frame, transport, appended, threadFixed>>

\* processPreServerExistsPackets, lines 142-145
DrainLatch(t) ==
    /\ pc[t] = "drain_latch"
    /\ IF releaseQueuedMessagesPending
       THEN IF ~ServersExist
            THEN UNCHANGED <<pendingEditPackets, transport>>
            ELSE /\ transport' = ReleasedTransport(t, ThreadServer)
                 /\ pendingEditPackets' =
                        [pendingEditPackets EXCEPT ![ThreadServer] = ReleasedBuffer(@)]
       ELSE UNCHANGED <<pendingEditPackets, transport>>
    /\ releaseQueuedMessagesPending' = FALSE
    /\ pc' = [pc EXCEPT ![t] = "idle"]
    /\ UNCHANGED <<activeSocket, sequenceNumber, preServerSingleMessagePackets,
                   preServerPackets, nextId, frame, pendingPacketsLock, appended,
                   threadFixed>>

\* the node list reports the server's socket as active
ThreadNodeActivated ==
    /\ ~activeSocket[ThreadServer]
    /\ activeSocket' = [activeSocket EXCEPT ![ThreadServer] = TRUE]
    /\ UNCHANGED <<releaseQueuedMessagesPending, sequenceNumber,
                   preServerSingleMessagePackets, preServerPackets, pendingEditPackets,
                   nextId, pc, frame, pendingPacketsLock, transport, appended, threadFixed>>

\* the node's socket goes away (the node list is fed by the network thread)
ThreadNodeDeactivated ==
    /\ activeSocket[ThreadServer]
    /\ activeSocket' = [activeSocket EXCEPT ![ThreadServer] = FALSE]
    /\ UNCHANGED <<releaseQueuedMessagesPending, sequenceNumber,
                   preServerSingleMessagePackets, preServerPackets, pendingEditPackets,
                   nextId, pc, frame, pendingPacketsLock, transport, appended, threadFixed>>

ThreadsNext ==
    \/ \E t \in Producers : CallQueueOctreeEditMessage(t)
    \/ \E t \in Producers : CallQueuePendingPacketToNodes(t)
    \/ \E t \in Threads : PendingLock(t)
    \/ \E t \in Threads : PendingPush(t)
    \/ \E t \in Threads : PendingUnlock(t)
    \/ \E t \in Threads : ActiveCheck(t)
    \/ \E t \in Threads : InitializeSequence(t)
    \/ \E t \in Threads : InitializeRest(t)
    \/ \E t \in Threads : ActiveCopy(t)
    \/ \E t \in Threads : ActiveAdvance(t)
    \/ ThreadReleaseQueuedMessages(Dispatcher)
    \/ CallProcess(Dispatcher)
    \/ DrainLock(Dispatcher)
    \/ DrainSingle(Dispatcher)
    \/ DrainPacket(Dispatcher)
    \/ DrainErase(Dispatcher)
    \/ DrainUnlock(Dispatcher)
    \/ DrainLatch(Dispatcher)
    \/ ThreadNodeActivated

\* the threads of SpecThreads with servers that come and go
DrainNext ==
    \/ ThreadsNext
    \/ ThreadNodeDeactivated

(***************************************************************************)
(* Specifications                                                          *)
(***************************************************************************)
StoreInit == StoreStart /\ SenderStart /\ ThreadStart /\ PacketStart /\ maxPendingMessages = MaxPending

SenderInit == StoreStart /\ SenderStart /\ ThreadStart /\ PacketStart

BatchInit == StoreStart /\ BatchStart /\ ThreadStart /\ PacketStart

RouteInit == StoreStart /\ RouteStart /\ ThreadStart /\ PacketStart

ThreadsInit == StoreStart /\ ThreadsStart /\ ThreadStart /\ PacketStart

SpecStore == StoreInit /\ [][StoreNext]_vars

SpecIdentity == StoreInit /\ [][IdentityNext]_vars

SpecSweep == StoreInit /\ [][SweepNext]_vars

SpecFrame == StoreInit /\ [][FrameNext]_vars

SpecQuery == StoreInit /\ [][QueryNext]_vars

SpecCodec == StoreInit /\ [][CodecNext]_vars

SpecSender == SenderInit /\ [][SenderNext]_vars

SpecBatch == BatchInit /\ [][BatchNext]_vars

SpecRoute == RouteInit /\ [][RouteNext]_vars

SpecThreads == ThreadsInit /\ [][ThreadsNext]_vars

SpecDrain == ThreadsInit /\ [][DrainNext]_vars

(***************************************************************************)
(* Properties of the entity store                                          *)
(***************************************************************************)
\* the last call was updateModel(model) and an entity with the incoming ID was stored
UpdateModelHit ==
    /\ storeCall.op = "updateModel"
    /\ \E k \in 1..Len(storeCall.pre) : storeCall.pre[k].id = storeCall.arg.id

\* position of the stored entity updateModel looked at
HitIndex ==
    CHOOSE k \in 1..Len(storeCall.pre) :
        /\ storeCall.pre[k].id = storeCall.arg.id
        /\ \A j \in 1..(k - 1) : storeCall.pre[j].id # storeCall.arg.id

\* C1: updateModel(model) on a stored ID replaces the stored entity by the
\* incoming one exactly when local.lastEdited < incoming.lastEdited or
\* local.lastUpdated < incoming.lastUpdated; otherwise the list is left as it
\* was; either way the call returns true.
C1_OverwriteIffEitherOlder ==
    UpdateModelHit =>
        LET local == storeCall.pre[HitIndex]
            incoming == storeCall.arg
            older == \/ local.lastEdited < incoming.lastEdited
                     \/ local.lastUpdated < incoming.lastUpdated
        IN  /\ storeCall.ret = TRUE
            /\ Len(modelItems) = Len(storeCall.pre)
            /\ older => modelItems[HitIndex] = incoming
            /\ ~older => modelItems = storeCall.pre

\* C1 witness: an update that is older in lastEdited but newer in lastUpdated
\* replaced the stored entity, which was not the first of the list
C1_Witness ==
    /\ UpdateModelHit
    /\ HitIndex > 1
    /\ storeCall.pre[HitIndex].lastEdited > storeCall.arg.lastEdited
    /\ storeCall.pre[HitIndex].lastUpdated < storeCall.arg.lastUpdated
    /\ modelItems[HitIndex] = storeCall.arg

\* lexicographic order on the (lastEdited, lastUpdated) pair
PairLess(a, b) ==
    \/ a.lastEdited < b.lastEdited
    \/ a.lastEdited = b.lastEdited /\ a.lastUpdated < b.lastUpdated

\* C2: after updateModel(B) on a stored A with the same ID the store holds
\* whichever of A and B has the larger (lastEdited, lastUpdated) pair.
C2_MaxOfTimestampPairs ==
    UpdateModelHit =>
        LET A == storeCall.pre[HitIndex]
            B == storeCall.arg
        IN  /\ PairLess(A, B) => modelItems[HitIndex] = B
            /\ PairLess(B, A) => modelItems[HitIndex] = A
            /\ modelItems[HitIndex] \in {A, B}

\* C3: U1 then U2 on an empty store (storeModel after not-found, then
\* updateModel) ends in the same entity list as U2 then U1.
C3_OrderIndependence ==
    (/\ storeCall.op = "updateModel"
     /\ Len(storeCall.pre) = 1
     /\ storeCall.pre[1].id = storeCall.arg.id) =>
        LET U1 == storeCall.pre[1]
            U2 == storeCall.arg
            afterU2 == IF UpdateModelFound(<<>>, U2)
                       THEN UpdateModelItems(<<>>, U2)
                       ELSE StoreModelItems(<<>>, U2)
            afterU2U1 == IF UpdateModelFound(afterU2, U1)
                         THEN UpdateModelItems(afterU2, U1)
                         ELSE StoreModelItems(afterU2, U1)
        IN  modelItems = afterU2U1

\* C4: a second updateModel(model) with the same entity right after the first
\* leaves the entity list as the first call left it.
C4_Idempotent ==
    (storeCall.op = "updateModel" /\ storeCall.rep) => modelItems = storeCall.pre

\* C4 witness: the first of the two calls replaced the stored entity, the
\* second one found it again
C4_Witness ==
    /\ storeCall.op = "updateModel"
    /\ storeCall.rep
    /\ storeCall.prevChanged
    /\ storeCall.ret
    /\ modelItems[HitIndex] = storeCall.arg

(***************************************************************************)
(* Properties of the edit packet sender                                    *)
(***************************************************************************)
\* the last k elements of a sequence
LastN(seq, k) == SubSeq(seq, Len(seq) - k + 1, Len(seq))

\* the edit numbers of a sequence of records
Numbers(seq) == [i \in 1..Len(seq) |-> seq[i].n]

\* every entry of the two pending sub-lists
PendingEntries ==
    {preServerSingleMessagePackets[i] : i \in 1..Len(preServerSingleMessagePackets)}
        \cup {preServerPackets[i] : i \in 1..Len(preServerPackets)}

\* C5: after N edits were submitted through queueOctreeEditMessage while
\* serversExist() was false (and no single-message packet was queued), with
\* 0 < maxPendingMessages < N, the drain replays exactly the most recent
\* maxPendingMessages of them, in the order they were submitted.
C5_DrainReplaysMostRecent ==
    (/\ senderCall.op = "process"
     /\ senderCall.drained
     /\ senderCall.bootSingles = <<>>
     /\ maxPendingMessages > 0
     /\ Len(senderCall.bootEdits) > maxPendingMessages) =>
        Numbers(senderCall.replayed) = LastN(senderCall.bootEdits, maxPendingMessages)

\* C5 witness: three edits were submitted with capacity two and the drain
\* replayed two records
C5_Witness ==
    /\ senderCall.op = "process"
    /\ senderCall.drained
    /\ senderCall.bootSingles = <<>>
    /\ maxPendingMessages = 2
    /\ Len(senderCall.bootEdits) = 3
    /\ Len(senderCall.replayed) = 2

\* C6: the entry dropped on overflow is older than every entry that stays
\* pending in either sub-list.
C6_OverflowDropsOldestOverall ==
    senderCall.dropped # NoRecord =>
        \A e \in PendingEntries : senderCall.dropped.n < e.n

\* C7: the two pending sub-lists together never hold more than
\* maxPendingMessages entries; with maxPendingMessages = 0 they stay empty.
C7_PendingBounded ==
    Len(preServerSingleMessagePackets) + Len(preServerPackets) <= maxPendingMessages

\* C7 witness: an overflow dropped an entry while both sub-lists were in use
\* and the pending list is full
C7_Witness ==
    /\ senderCall.dropped # NoRecord
    /\ preServerSingleMessagePackets # <<>>
    /\ preServerPackets # <<>>
    /\ Len(preServerSingleMessagePackets) + Len(preServerPackets) = maxPendingMessages

\* the step is one call of queueOctreeEditMessage
EditStep ==
    /\ nextId' = nextId + 1
    /\ senderCall'.op = "queueOctreeEditMessage"

C9_ProcessDrainsWholeFifo ==
    (senderCall.op = "process" /\ senderCall.drained) =>
        /\ ~crashed
        /\ senderCall.dispatched = senderCall.preSingles
        /\ senderCall.replayed = senderCall.prePackets
        /\ preServerSingleMessagePackets = <<>>
        /\ preServerPackets = <<>>

\* C10: a release request latched while serversExist() was false is honoured
\* once serversExist() is true: after process() has run with serversExist()
\* true, every buffer that was non-empty when the request was latched has
\* been flushed.
C10_LatchedReleaseHonoured ==
    (/\ senderCall.op = "process"
     /\ senderCall.servers
     /\ ~crashed) =>
        releaseLatchedFor = {}

(***************************************************************************)
(* Properties of the Active phase: flushing and batching                   *)
(***************************************************************************)
\* the step is one call of releaseQueuedMessages (or leaves the state as
\* that call left it)
ReleaseStep ==
    /\ senderCall'.op = "releaseQueuedMessages"
    /\ UNCHANGED <<envVars, nextId>>

\* positions in a sequence of packets of those handed to the transport for server s
SentTo(sent, s) == {i \in 1..Len(sent) : sent[i].node = s}

\* the bytes of a buffer as one packet for server s
PacketOf(b, s) ==
    [node |-> s, type |-> b.currentType, sequence |-> b.sequence,
     size |-> b.currentSize, recs |-> b.recs]

\* the buffer of the servers queueOctreeEditMessage appends the record to
\* when every jurisdiction is known
Owners(addr) ==
    {s \in Servers : /\ activeSocket[s]
                     /\ serverJurisdictions # NULL
                     /\ serverJurisdictions[s] # Missing
                     /\ addr \in serverJurisdictions[s]}

\* C11: releaseQueuedMessages() called while serversExist() is true hands the
\* bytes of every non-empty per-destination buffer to the transport exactly
\* once; on return every buffer has fill length 0 and type Unknown and the
\* release latch is unchanged.
C11_ReleaseFlushesEveryBuffer ==
    [][(ReleaseStep /\ ServersExist) =>
          /\ \A s \in Servers :
                pendingEditPackets[s].currentSize > 0 =>
                    /\ Cardinality(SentTo(senderCall'.sent, s)) = 1
                    /\ \A i \in SentTo(senderCall'.sent, s) :
                          senderCall'.sent[i] = PacketOf(pendingEditPackets[s], s)
          /\ \A s \in Servers :
                /\ pendingEditPackets'[s].currentSize = 0
                /\ pendingEditPackets'[s].currentType = PacketTypeUnknown
          /\ releaseQueuedMessagesPending' = releaseQueuedMessagesPending]_vars

\* C12: when appending the next record to a server's buffer would exceed
\* MaxPacketSize, the buffer is flushed exactly once before the record is
\* appended, and every packet handed to the transport is at most
\* MaxPacketSize bytes long, whatever the record lengths.
C12_BatchBoundary ==
    [][(EditStep /\ ServersExist) =>
          /\ \A s \in Owners(senderCall'.rec.addr) :
                pendingEditPackets[s].currentSize + senderCall'.rec.len > MaxPacketSize =>
                    /\ Cardinality(SentTo(senderCall'.sent, s)) = 1
                    /\ \A i \in SentTo(senderCall'.sent, s) :
                          senderCall'.sent[i].recs = pendingEditPackets[s].recs
                    /\ Len(pendingEditPackets'[s].recs) = 1
                    /\ pendingEditPackets'[s].recs[1].rec.n = senderCall'.rec.n
          /\ \A i \in 1..Len(senderCall'.sent) :
                senderCall'.sent[i].size <= MaxPacketSize]_vars

\* C13: a record of type T2 submitted for a server whose buffer is non-empty
\* with current type T1 # T2 makes the sender hand the T1 buffer, and nothing
\* of the T2 record, to the transport, and restart the buffer with a fresh
\* T2 header followed by the record.
C13_TypeSwitchFlush ==
    [][(EditStep /\ ServersExist) =>
          \A s \in Owners(senderCall'.rec.addr) :
              (/\ pendingEditPackets[s].currentSize > 0
               /\ pendingEditPackets[s].currentType # senderCall'.rec.type) =>
                  /\ Cardinality(SentTo(senderCall'.sent, s)) = 1
                  /\ \A i \in SentTo(senderCall'.sent, s) :
                        senderCall'.sent[i] = PacketOf(pendingEditPackets[s], s)
                  /\ pendingEditPackets'[s].currentType = senderCall'.rec.type
                  /\ pendingEditPackets'[s].sequence \in
                        {senderCall'.built[k] : k \in 1..Len(senderCall'.built)}
                  /\ pendingEditPackets'[s].currentSize = HeaderBytes + senderCall'.rec.len
                  /\ Len(pendingEditPackets'[s].recs) = 1
                  /\ pendingEditPackets'[s].recs[1].at = HeaderBytes
                  /\ pendingEditPackets'[s].recs[1].rec.n = senderCall'.rec.n]_vars

\* C13 witness: the last edit had another type than the packet it made the
\* sender flush, and it is alone in the restarted buffer
C13_Witness ==
    /\ senderCall.op = "queueOctreeEditMessage"
    /\ senderCall.servers
    /\ Len(senderCall.sent) = 1
    /\ senderCall.sent[1].type # senderCall.rec.type
    /\ senderCall.sent[1].recs # <<>>
    /\ pendingEditPackets[senderCall.sent[1].node].currentType = senderCall.rec.type
    /\ Len(pendingEditPackets[senderCall.sent[1].node].recs) = 1

\* C14: in every reachable state all records held in one per-destination
\* buffer were submitted with the buffer's current type, and the buffer's
\* fill length is at most MaxPacketSize.
C14_BufferOneTypeAndFits ==
    \A s \in Servers :
        /\ \A i \in 1..Len(pendingEditPackets[s].recs) :
              pendingEditPackets[s].recs[i].rec.type = pendingEditPackets[s].currentType
        /\ pendingEditPackets[s].currentSize <= MaxPacketSize

(***************************************************************************)
(* Properties of the Active phase: routing, clock skew and headers         *)
(***************************************************************************)
\* C15: every record copy held in the buffer of server D carries the
\* submitted timestamp shifted by D's clock offset and by nothing else, also
\* when the edit went to several servers.
C15_SkewPerDestination ==
    \A s \in Servers :
        \A i \in 1..Len(pendingEditPackets[s].recs) :
            pendingEditPackets[s].recs[i].rec.stamp = OriginStamp + clockSkew[s]

\* the record numbers held in a buffer, in buffer order
BufferNumbers(b) == [i \in 1..Len(b.recs) |-> b.recs[i].rec.n]

\* C16: in the Active phase with the jurisdictions known, queueOctreeEditMessage
\* appends the record once to the buffer of every active server whose
\* jurisdiction contains the record's address (after the buffer's content so
\* far, or alone when the buffer was flushed first), and changes no other
\* server's buffer.
C16_AppendsToOwnersOnly ==
    [][(EditStep /\ ServersExist /\ serverJurisdictions # NULL) =>
          \A s \in Servers :
              IF s \in Owners(senderCall'.rec.addr)
              THEN \/ BufferNumbers(pendingEditPackets'[s]) =
                          Append(BufferNumbers(pendingEditPackets[s]), senderCall'.rec.n)
                   \/ /\ SentTo(senderCall'.sent, s) # {}
                      /\ BufferNumbers(pendingEditPackets'[s]) = <<senderCall'.rec.n>>
              ELSE pendingEditPackets'[s] = pendingEditPackets[s]]_vars

\* C16 witness: an edit for an address only the second server owns was added
\* to that server's buffer while the first server's buffer kept what it held
C16_Witness ==
    /\ senderCall.op = "queueOctreeEditMessage"
    /\ senderCall.servers
    /\ serverJurisdictions # NULL
    /\ activeSocket = [s \in Servers |-> TRUE]
    /\ senderCall.rec.addr = "a2"
    /\ Len(pendingEditPackets["s2"].recs) = 2
    /\ pendingEditPackets["s2"].recs[2].rec.n = senderCall.rec.n
    /\ Len(pendingEditPackets["s1"].recs) = 1
    /\ pendingEditPackets["s1"].recs[1].rec.n # senderCall.rec.n

\* the numbers of the records the sender holds: in a buffer or in a pending list
HeldNumbers(buffers, singles, packets) ==
    UNION {{buffers[s].recs[i].rec.n : i \in 1..Len(buffers[s].recs)} : s \in Servers}
        \cup {singles[i].n : i \in 1..Len(singles)}
        \cup {packets[i].n : i \in 1..Len(packets)}

\* the numbers of the records in a sequence of packets
SentNumbers(sent) ==
    UNION {{sent[i].recs[k].rec.n : k \in 1..Len(sent[i].recs)} : i \in 1..Len(sent)}

\* C17: in the Active phase an edit whose address lies in no server's known
\* jurisdiction is dropped: queueOctreeEditMessage leaves every buffer, both
\* pending sub-lists and the sequence counter unchanged and hands nothing to
\* the transport; and no call ever holds or sends a record that the sender
\* did not hold before the call, except the record the call was given, so the
\* dropped record is never sent later.
C17_UnownedEditDropped ==
    [][/\ (/\ EditStep
           /\ ServersExist
           /\ serverJurisdictions # NULL
           /\ \A s \in Servers : \/ serverJurisdictions[s] = Missing
                                 \/ senderCall'.rec.addr \notin serverJurisdictions[s])
          => /\ pendingEditPackets' = pendingEditPackets
             /\ preServerSingleMessagePackets' = preServerSingleMessagePackets
             /\ preServerPackets' = preServerPackets
             /\ sequenceNumber' = sequenceNumber
             /\ senderCall'.sent = <<>>
       /\ (UNCHANGED envVars) =>
             (HeldNumbers(pendingEditPackets', preServerSingleMessagePackets',
                          preServerPackets')
                \cup SentNumbers(senderCall'.sent))
             \subseteq
             (HeldNumbers(pendingEditPackets, preServerSingleMessagePackets,
                          preServerPackets)
                \cup IF nextId' # nextId THEN {nextId} ELSE {})]_vars

\* C17 witness: the last edit addressed a3, which no server owns, while both
\* servers were active with non-empty buffers, and the sender holds no copy
\* of it
C17_Witness ==
    /\ senderCall.op = "queueOctreeEditMessage"
    /\ senderCall.servers
    /\ serverJurisdictions # NULL
    /\ senderCall.rec.addr = "a3"
    /\ \A s \in Servers : activeSocket[s] /\ pendingEditPackets[s].recs # <<>>
    /\ senderCall.sent = <<>>
    /\ senderCall.rec.n \notin
          HeldNumbers(pendingEditPackets, preServerSingleMessagePackets, preServerPackets)

\* C18: a buffer's header is the packet type, then the 16-bit sequence number,
\* then the 64-bit timestamp, and the records start right after it; the
\* k-th header a sender builds carries sequence number (k - 1) mod 2^16.
C18_HeaderSequence ==
    [][/\ \A s \in Servers :
             pendingEditPackets'[s].currentType # PacketTypeUnknown =>
                 /\ pendingEditPackets'[s].sequenceAt = NumBytesForPacketHeader
                 /\ pendingEditPackets'[s].timeAt =
                        pendingEditPackets'[s].sequenceAt + 2
                 /\ pendingEditPackets'[s].recs # <<>>
                 /\ pendingEditPackets'[s].recs[1].at = pendingEditPackets'[s].timeAt + 8
                 /\ pendingEditPackets'[s].sequence \in 0..65535
       /\ headersBuilt' # headersBuilt =>
             senderCall'.built =
                 [k \in 1..(headersBuilt' - headersBuilt) |->
                     (headersBuilt + k - 1) % 65536]]_vars

\* C18 witness: the header built last is the 65537th and carries sequence
\* number 0, right after the one that carried 65535
C18_Witness ==
    /\ headersBuilt = 65537
    /\ senderCall.built = <<0>>
    /\ senderCall.sent # <<>>
    /\ senderCall.sent[1].sequence = 65535
    /\ \E s \in Servers : /\ pendingEditPackets[s].currentType # PacketTypeUnknown
                          /\ pendingEditPackets[s].sequence = 0

\* the records of a packet lie one after the other from the end of the header
\* to the end of the packet
Contiguous(recs, size) ==
    /\ recs # <<>>
    /\ recs[1].at = HeaderBytes
    /\ \A i \in 1..(Len(recs) - 1) : recs[i + 1].at = recs[i].at + recs[i].rec.len
    /\ size = recs[Len(recs)].at + recs[Len(recs)].rec.len

\* C19: every packet handed to the transport holds exactly the records of the
\* destination's buffer as it was before the call, one after the other behind
\* the header, and a call changes a buffer only by appending the record it
\* was given behind the records held, or by emptying it: so a packet's
\* records are those appended since the last flush, in append order.
C19_PacketKeepsAppendOrder ==
    [][(UNCHANGED envVars) =>
          /\ \A i \in 1..Len(senderCall'.sent) :
                /\ senderCall'.sent[i].recs = pendingEditPackets[senderCall'.sent[i].node].recs
                /\ Contiguous(senderCall'.sent[i].recs, senderCall'.sent[i].size)
          /\ \A s \in Servers :
                LET before == pendingEditPackets[s].recs
                    after == pendingEditPackets'[s].recs
                IN  \/ after = before
                    \/ after = <<>>
                    \/ /\ Len(after) = Len(before) + 1
                       /\ SubSeq(after, 1, Len(before)) = before
                       /\ after[Len(after)].rec.n = nextId
                       /\ nextId' = nextId + 1
                    \/ /\ Len(after) = 1
                       /\ after[1].rec.n = nextId
                       /\ nextId' = nextId + 1
                       /\ SentTo(senderCall'.sent, s) # {} \/ before = <<>>]_vars

\* C19 witness: a packet with two records, in the order they were submitted,
\* was handed to the transport
C19_Witness ==
    /\ senderCall.sent # <<>>
    /\ Len(senderCall.sent[1].recs) = 2
    /\ senderCall.sent[1].recs[1].rec.n < senderCall.sent[1].recs[2].rec.n
    /\ senderCall.sent[1].recs[1].at < senderCall.sent[1].recs[2].at

\* C20: whenever a call empties or restarts a buffer that held records, the
\* held records are handed to the transport for the buffer's server, whether
\* or not the server is reachable.
C20_FlushHandsOver ==
    [][\A s \in Flushed(pendingEditPackets, pendingEditPackets') :
          pendingEditPackets[s].recs # <<>> =>
              \E i \in SentTo(senderCall'.sent, s) :
                  senderCall'.sent[i].recs = pendingEditPackets[s].recs]_vars

(***************************************************************************)
(* Claims C23..C30: the entity list of one node                            *)
(***************************************************************************)
\* indices of the entities of a list that carry an ID
WithID(items, id) == {i \in 1..Len(items) : items[i].id = id}

\* C23: updateModel(model) on a node with no entity of the incoming ID returns
\* false and leaves the entity list as it was; the entity is not inserted.
C23_NotFoundKeepsList ==
    (storeCall.op = "updateModel" /\ WithID(storeCall.pre, storeCall.arg.id) = {})
        => (storeCall.ret = FALSE /\ modelItems = storeCall.pre)

C23_Witness ==
    /\ storeCall.op = "updateModel"
    /\ Len(storeCall.pre) = MaxItems
    /\ WithID(storeCall.pre, storeCall.arg.id) = {}
    /\ storeCall.ret = FALSE

\* indices a ModelItemID matches: the numeric ID when it is known, the
\* creator token otherwise
MatchedBy(items, modelID) ==
    {i \in 1..Len(items) :
        \/ modelID.isKnownID /\ items[i].id = modelID.id
        \/ ~modelID.isKnownID /\ items[i].creatorTokenID = modelID.creatorTokenID}

Lowest(S) == CHOOSE i \in S : \A j \in S : i <= j

\* C24: updateModel(modelID, properties) writes the properties onto the first
\* entity the ID (or, for an unknown ID, the creator token) matches, whatever
\* that entity's timestamps, and returns true; with no match it returns false
\* and the list is unchanged.
C24_LocalEditAlwaysOverwrites ==
    storeCall.op = "updateModelProperties" =>
        LET hits == MatchedBy(storeCall.pre, storeCall.modelID)
        IN  IF hits = {}
            THEN storeCall.ret = FALSE /\ modelItems = storeCall.pre
            ELSE /\ storeCall.ret = TRUE
                 /\ Len(modelItems) = Len(storeCall.pre)
                 /\ \A i \in 1..Len(modelItems) :
                        IF i = Lowest(hits)
                        THEN modelItems[i] =
                                 [storeCall.pre[i] EXCEPT !.props = storeCall.properties.props]
                        ELSE modelItems[i] = storeCall.pre[i]

C24_Witness ==
    /\ storeCall.op = "updateModelProperties"
    /\ ~storeCall.modelID.isKnownID
    /\ storeCall.ret = TRUE
    /\ \E i \in 1..Len(storeCall.pre) :
          /\ storeCall.pre[i].lastEdited = MaxTime
          /\ storeCall.pre[i].creatorTokenID = storeCall.modelID.creatorTokenID
          /\ storeCall.pre[i].id # storeCall.modelID.id
          /\ modelItems[i].props # storeCall.pre[i].props

\* the locally created entities and the echoes a reconciliation is about
LocalsOf(items, args) ==
    {i \in 1..Len(items) : items[i].creatorTokenID = args.creatorTokenID}

EchoesOf(items, args) ==
    {i \in 1..Len(items) : /\ items[i].creatorTokenID = UNKNOWN_MODEL_TOKEN
                           /\ items[i].id = args.modelID}

\* C25 as stated: after updateModelItemID on a node that holds the locally
\* created entity and an echo, exactly one entity has the assigned ID, and it
\* is the reconciled one.
C25_OneCopySurvives ==
    (/\ storeCall.op = "updateModelItemID"
     /\ ~storeCall.args.creatorTokenFound
     /\ Cardinality(LocalsOf(storeCall.pre, storeCall.args)) = 1
     /\ Cardinality(EchoesOf(storeCall.pre, storeCall.args)) = 1
     /\ Len(storeCall.pre) = 2)
        => /\ Cardinality(WithID(modelItems, storeCall.args.modelID)) = 1
           /\ \A i \in WithID(modelItems, storeCall.args.modelID) :
                  modelItems[i].creatorTokenID = storeCall.args.creatorTokenID

\* C25 amended: the same, for a call with args.isViewing set, on a node where
\* the only other entity with the assigned ID is the one echo.
C25_OneCopySurvivesWhenViewing ==
    (/\ storeCall.op = "updateModelItemID"
     /\ storeCall.args.isViewing
     /\ ~storeCall.args.creatorTokenFound
     /\ LocalsOf(storeCall.pre, storeCall.args) # {}
     /\ Cardinality(EchoesOf(storeCall.pre, storeCall.args)) = 1
     /\ WithID(storeCall.pre, storeCall.args.modelID) \subseteq
            (EchoesOf(storeCall.pre, storeCall.args)
                \cup {Lowest(LocalsOf(storeCall.pre, storeCall.args))}))
        => /\ Cardinality(WithID(modelItems, storeCall.args.modelID)) = 1
           /\ Len(modelItems) = Len(storeCall.pre) - 1
           /\ \A i \in WithID(modelItems, storeCall.args.modelID) :
                  modelItems[i].creatorTokenID = storeCall.args.creatorTokenID

\* the echo comes first in the list, the locally created entity second
C25_Witness ==
    /\ storeCall.op = "updateModelItemID"
    /\ storeCall.args.isViewing
    /\ ~storeCall.args.creatorTokenFound
    /\ Len(storeCall.pre) = 2
    /\ EchoesOf(storeCall.pre, storeCall.args) = {1}
    /\ LocalsOf(storeCall.pre, storeCall.args) = {2}
    /\ storeCall.pre[2].id # storeCall.args.modelID
    /\ Len(modelItems) = 1
    /\ modelItems[1].id = storeCall.args.modelID
    /\ modelItems[1].creatorTokenID = storeCall.args.creatorTokenID

\* a list without the entities at the given indices
Without(items, S) ==
    LET F[i \in 0..Len(items)] ==
            IF i = 0 THEN <<>>
            ELSE IF i \in S THEN F[i - 1] ELSE Append(F[i - 1], items[i])
    IN  F[Len(items)]

C27_RemovedIsGone ==
    storeCall.op = "removeModelWithID" =>
        IF WithID(storeCall.pre, storeCall.id) = {}
        THEN storeCall.ret = FALSE /\ modelItems = storeCall.pre
        ELSE storeCall.ret = TRUE /\ storeCall.lookup = NoItem

\* C27 amended: otherwise it returns true and deletes the first entity with
\* the ID; getModelWithID(id) finds no entity afterwards when the ID was held
\* once, and the next entity with the ID when it was held more than once.
C27_FirstMatchRemoved ==
    storeCall.op = "removeModelWithID" =>
        LET hits == WithID(storeCall.pre, storeCall.id)
        IN  IF hits = {}
            THEN storeCall.ret = FALSE /\ modelItems = storeCall.pre
            ELSE /\ storeCall.ret = TRUE
                 /\ modelItems = Without(storeCall.pre, {Lowest(hits)})
                 /\ Cardinality(hits) = 1 => storeCall.lookup = NoItem
                 /\ Cardinality(hits) > 1 =>
                        storeCall.lookup = storeCall.pre[Lowest(hits \ {Lowest(hits)})]

C27_Witness ==
    /\ storeCall.op = "removeModelWithID"
    /\ storeCall.ret = TRUE
    /\ Len(storeCall.pre) = 2
    /\ WithID(storeCall.pre, storeCall.id) = {1}
    /\ modelItems = <<storeCall.pre[2]>>
    /\ storeCall.lookup = NoItem

\* C28: storeModel(entity) appends the entity at the end of the list, which
\* grows by one, whether or not its ID is already there; no entity of the
\* list is changed.
C28_StoreAppends ==
    storeCall.op = "storeModel" =>
        /\ Len(modelItems) = Len(storeCall.pre) + 1
        /\ modelItems[Len(modelItems)] = storeCall.arg
        /\ \A i \in 1..Len(storeCall.pre) : modelItems[i] = storeCall.pre[i]

C28_Witness ==
    /\ storeCall.op = "storeModel"
    /\ WithID(storeCall.pre, storeCall.arg.id) # {}
    /\ Cardinality(WithID(modelItems, storeCall.arg.id)) = 2

\* what the sweep keeps
Stays(model) == ~model.shouldDie /\ model.position = "inside"

Leaves(model) == ~Stays(model)

\* the entities of a list after their simulation step
Simulated(items, sim) == [i \in 1..Len(items) |-> ModelItemUpdate(items[i], sim[i])]

\* C29: after update(args) every entity left in the node is alive and inside
\* the box, and the entities left and the entities in args._movingModels are
\* the entities the node held, each once, in their order in the node.
C29_SweepPartitions ==
    storeCall.op = "update" =>
        LET held == Simulated(storeCall.pre, storeCall.sim)
        IN  /\ \A i \in 1..Len(modelItems) : Stays(modelItems[i])
            /\ modelItems = SelectSeq(held, Stays)
            /\ storeCall.movingModels = SelectSeq(held, Leaves)
            /\ Len(modelItems) + Len(storeCall.movingModels) = Len(storeCall.pre)

\* two neighbours leave in the same sweep
C29_Witness ==
    /\ storeCall.op = "update"
    /\ Len(storeCall.pre) = 2
    /\ storeCall.pre[1].id # storeCall.pre[2].id
    /\ Len(storeCall.movingModels) = 2
    /\ storeCall.movingModels[1].id = storeCall.pre[1].id
    /\ storeCall.movingModels[1].shouldDie
    /\ storeCall.movingModels[2].position = "outside"
    /\ modelItems = <<>>

\* C30 as stated: in every reachable state every entity of the node lies
\* inside the node's box.
C30_AlwaysInsideBox ==
    \A i \in 1..Len(modelItems) : modelItems[i].position = "inside"

\* C30 amended: every entity of the node lies inside the box in the state
\* update(args) leaves.
C30_InsideBoxAfterSweep ==
    storeCall.op = "update" =>
        \A i \in 1..Len(modelItems) : modelItems[i].position = "inside"

\* an entity that was outside the box before the sweep is swept out
C30_Witness ==
    /\ storeCall.op = "update"
    /\ \E i \in 1..Len(storeCall.pre) :
          storeCall.pre[i].position = "outside" /\ storeCall.sim[i] = "stay"
    /\ \E i \in 1..Len(modelItems) : modelItems[i].position = "inside"

(***************************************************************************)
(* Claims C21, C22: the sender under concurrent callers                    *)
(***************************************************************************)
\* no thread is inside a call
Quiescent == \A t \in Threads : pc[t] = "idle"

\* numbers of the records in a list of buffer entries
EntryNumbers(recs) == {recs[i].rec.n : i \in 1..Len(recs)}

\* numbers of the records in the packets handed to the transport
TransportNumbers ==
    UNION {EntryNumbers(transport[i].recs) : i \in 1..Len(transport)}

\* the batched packets handed to the transport (the single-message packets
\* carry no sequence number of the sender)
Batched == {i \in 1..Len(transport) : transport[i].sequence >= 0}

\* C21: whatever the interleaving of the producers' queueOctreeEditMessage
\* calls and the dispatch thread's process() and releaseQueuedMessages, once
\* the calls have returned no appended record is lost (it is in its buffer or
\* in a packet handed over), the buffer's records lie one behind the other
\* after the header, and no two packets carry the same sequence number.
C21_NoInterleavingLosesOrDuplicates ==
    /\ \A i, j \in Batched : i # j => transport[i].sequence # transport[j].sequence
    /\ Quiescent =>
          LET b == pendingEditPackets[ThreadServer]
          IN  /\ appended \subseteq (EntryNumbers(Payload(b)) \cup TransportNumbers)
              /\ b.currentSize > 0 =>
                    /\ b.currentSize >= HeaderBytes
                    /\ Len(Payload(b)) = b.currentSize - HeaderBytes

\* C22: no thread hands a packet to the transport queue while it holds the
\* pending-packets lock.
C22_LockNeverHeldAtHandOver ==
    [][transport' # transport =>
          pendingPacketsLock # transport'[Len(transport')].by]_vars

(***************************************************************************)
(* Claim C40: what the updates and the removal leave alone                 *)
(***************************************************************************)
\* C40: updateModel(model) and updateModel(modelID, properties) keep the
\* number and the order of the entities and change at most the first entity
\* that matches; removeModelWithID takes out the first entity with the ID and
\* nothing else when it returns true, and changes nothing when it returns
\* false.
C40_AtMostFirstMatchTouched ==
    /\ storeCall.op = "updateModel" =>
          /\ Len(modelItems) = Len(storeCall.pre)
          /\ \A i \in 1..Len(storeCall.pre) :
                 (WithID(storeCall.pre, storeCall.arg.id) = {}
                    \/ i # Lowest(WithID(storeCall.pre, storeCall.arg.id)))
                     => modelItems[i] = storeCall.pre[i]
    /\ storeCall.op = "updateModelProperties" =>
          /\ Len(modelItems) = Len(storeCall.pre)
          /\ \A i \in 1..Len(storeCall.pre) :
                 (MatchedBy(storeCall.pre, storeCall.modelID) = {}
                    \/ i # Lowest(MatchedBy(storeCall.pre, storeCall.modelID)))
                     => modelItems[i] = storeCall.pre[i]
    /\ storeCall.op = "removeModelWithID" =>
          IF storeCall.ret
          THEN /\ Len(modelItems) = Len(storeCall.pre) - 1
               /\ WithID(storeCall.pre, storeCall.id) # {}
               /\ modelItems =
                      Without(storeCall.pre, {Lowest(WithID(storeCall.pre, storeCall.id))})
          ELSE modelItems = storeCall.pre

\* two entities carry the incoming ID: the first is overwritten, the second
\* is left as it was
C40_Witness ==
    /\ storeCall.op = "updateModel"
    /\ WithID(storeCall.pre, storeCall.arg.id) = {1, 2}
    /\ storeCall.pre[2] # storeCall.arg
    /\ modelItems[1] = storeCall.arg
    /\ modelItems[1] # storeCall.pre[1]
    /\ modelItems[2] = storeCall.pre[2]

(***************************************************************************)
(* Claims C35, C36: the spatial queries                                    *)
(***************************************************************************)
\* C35: getClosestModel(position) returns NULL on an empty node, otherwise an
\* entity of the node that is at least as close to position as every other
\* entity of the node; the node is not modified.
C35_ClosestIsNearest ==
    storeCall.op = "getClosestModel" =>
        /\ modelItems = storeCall.pre
        /\ IF storeCall.pre = <<>>
           THEN storeCall.closestModel = 0
           ELSE /\ storeCall.closestModel \in 1..Len(storeCall.pre)
                /\ \A i \in 1..Len(storeCall.pre) :
                       Distance(storeCall.position,
                                storeCall.pre[storeCall.closestModel].position)
                           <= Distance(storeCall.position, storeCall.pre[i].position)

\* C36: getModelsForUpdate(box, found) appends exactly the entities whose
\* bounding cube touches the box passed as argument, in list order; the node
\* is not modified.
C36_FoundTouchArgumentBox ==
    storeCall.op = "getModelsForUpdate" =>
        /\ modelItems = storeCall.pre
        /\ \A i \in 1..Len(storeCall.pre) :
               (\E k \in 1..Len(storeCall.foundModels) : storeCall.foundModels[k] = i)
                   <=> Touches(ModelBox(storeCall.pre[i]), storeCall.box)


\* the encodings of the first k entities of items, one after the other
RECURSIVE Encodings(_, _)
Encodings(items, k) ==
    IF k = 0 THEN <<>> ELSE Encodings(items, k - 1) \o EncodeModel(items[k])

\* how many whole entities fit after the count in a packet with room for
\* available bytes
Fitting(available) == (available - SizeofCount) \div ExpectedBytes

\* appendElementData returned and the packet is as it left it
Encoded == storeCall.op = "appendElementData" /\ packetData.intact

Decoded == storeCall.op = "readElementDataFromBuffer"

\* C31: appendElementData writes nothing and fails when the count does not
\* fit; otherwise it writes the number of entities of the node as a 16-bit
\* count, then the encodings of the entities in list order up to the first
\* one that does not fit, and returns true exactly when every entity was
\* appended.
C31_EncodeWritesCountThenEntities ==
    Encoded =>
        LET n == Len(storeCall.pre)
            k == IF Fitting(storeCall.available) < n THEN Fitting(storeCall.available) ELSE n
        IN  IF storeCall.available < SizeofCount
            THEN packetData.bytes = <<>> /\ ~storeCall.ret
            ELSE /\ DecodeCount(packetData.bytes, 0) = n
                 /\ packetData.bytes = EncodeCount(n) \o Encodings(storeCall.pre, k)
                 /\ storeCall.ret = (k = n)

\* two entities, the packet has room for the count and one of them
C31_Witness ==
    /\ Encoded
    /\ Len(storeCall.pre) = 2
    /\ storeCall.pre[1] # storeCall.pre[2]
    /\ ~storeCall.ret
    /\ Len(packetData.bytes) = SizeofCount + ExpectedBytes

C33_PartialDecodeStoresLeading ==
    (/\ Decoded
     /\ storeCall.bytesLeftToRead >= SizeofCount
     /\ SizeofCount + storeCall.numberOfModels * ExpectedBytes > storeCall.bytesLeftToRead)
        => LET k == Fitting(storeCall.bytesLeftToRead)
           IN  /\ Len(storeCall.stored) = k
               /\ \A i \in 1..k :
                      storeCall.stored[i]
                          = DecodeModel(packetData.bytes, SizeofCount + (i - 1) * ExpectedBytes)
               /\ storeCall.ret = SizeofCount + k * ExpectedBytes

HandedTo(call, s, packet) ==
    Cardinality({i \in 1..Len(call.sent) :
                    /\ call.sent[i].node = s
                    /\ call.sent[i].size = packet.len
                    /\ Len(call.sent[i].recs) = 1
                    /\ call.sent[i].recs[1].rec = packet})

\* C37: every process() step that drains single-message packets through
\* queuePacketToNodes, with sending enabled and servers existing, completes,
\* and, with a jurisdiction map, hands each packet once to each active server
\* whose jurisdiction contains its address and to no other server.
C37_DispatchCompletesForEveryMap ==
    [][(/\ senderCall'.op = "process"
        /\ senderCall'.drained
        /\ preServerSingleMessagePackets # <<>>
        /\ senderCall'.preSingles = preServerSingleMessagePackets
        /\ ServersExist
        /\ shouldSend)
           => /\ ~crashed'
              /\ serverJurisdictions # NULL =>
                     \A s \in Servers :
                         \A i \in 1..Len(preServerSingleMessagePackets) :
                             HandedTo(senderCall', s, preServerSingleMessagePackets[i])
                                 = IF /\ activeSocket[s]
                                      /\ serverJurisdictions[s] # Missing
                                      /\ preServerSingleMessagePackets[i].addr
                                             \in serverJurisdictions[s]
                                   THEN 1 ELSE 0]_vars

\* a per-destination buffer is empty with whatever type, or has a known type,
\* a header and at least one record behind the header
WellFormed(b) ==
    /\ b.currentSize > 0 =>
           /\ b.currentType # PacketTypeUnknown
           /\ b.currentSize > HeaderBytes
           /\ \E i \in 1..Len(b.recs) :
                  b.recs[i].at >= HeaderBytes /\ b.recs[i].at < b.currentSize
    /\ b.currentType = PacketTypeUnknown => b.currentSize = 0

\* C38: once every call has returned, each per-destination buffer with a
\* non-zero fill length has a known type, a header and at least one record,
\* a buffer of type Unknown has fill length 0, and every packet released to
\* the transport holds a header and at least one record.
C38_BuffersWellFormedBetweenCalls ==
    Quiescent =>
        /\ \A s \in Servers : WellFormed(pendingEditPackets[s])
        /\ \A i \in Batched :
               transport[i].size > HeaderBytes /\ transport[i].recs # <<>>

\* C39: the drain of processPreServerExistsPackets never waits for the
\* pending lock while holding it, and it reaches its unlock only with both
\* pending sub-lists empty, whatever happens to the servers meanwhile.
C39_DrainNeverRelocks ==
    /\ ~(pc[Dispatcher] = "boot_lock" /\ pendingPacketsLock = Dispatcher)
    /\ pc[Dispatcher] = "drain_unlock" =>
           preServerSingleMessagePackets = <<>> /\ preServerPackets = <<>>

====
